---- MODULE Spec2Model ----
(***************************************************************************)
(* A model of the wind estimation and field-fusion pipeline of             *)
(* sailing_data_processor:                                                  *)
(*   - WindFieldFusionSystem (wind_field_fusion_system.py): the observation *)
(*     buffer, the current field, the bounded field history, fusion and     *)
(*     prediction;                                                          *)
(*   - WindEstimator (wind_estimator.py): the single-boat and multi-boat    *)
(*     estimation entry points.                                             *)
(*                                                                          *)
(* Conventions.  Python's None is the record None.  A datetime is the       *)
(* record [tag |-> "datetime", sec |-> n] (n in seconds); an epoch number   *)
(* is [tag |-> "number", sec |-> n]; any other timestamp is                 *)
(* [tag |-> "str"].  Real-valued quantities are fixed point: wind speed in  *)
(* 1e-5 m/s, confidence in 1/1000.  A grid is [shape, data]: data is a      *)
(* descriptor from which Cell(grid, i, j) computes the cell's value.        *)
(*                                                                          *)
(* WindFieldInterpolator, WindPropagationModel and PredictionEvaluator are  *)
(* not part of the modelled sources; their results are nondeterministic     *)
(* outcomes (a field, a falsy value, an exception).  The prediction-quality *)
(* bookkeeping (previous_predictions) never feeds back into the buffer, the *)
(* field or the history and is not represented.                             *)
(***************************************************************************)
EXTENDS Integers, Sequences, FiniteSets, TLC

VARIABLES
    wind_data_points,     \* WindFieldFusionSystem.wind_data_points
    current_wind_field,   \* WindFieldFusionSystem.current_wind_field
    wind_field_history,   \* WindFieldFusionSystem.wind_field_history
    last_fusion_time,     \* WindFieldFusionSystem.last_fusion_time
    produced,             \* number of fields the interpolator has produced so far
    wind_estimates,       \* WindEstimator.wind_estimates
    wind_cache,           \* the lru_cache of StrategyDetector._get_wind_at_position
    last                  \* the last call: its operation, inputs and outcome

fusion_vars == <<wind_data_points, current_wind_field, wind_field_history,
                 last_fusion_time, produced, last>>

vars == <<fusion_vars, wind_estimates, wind_cache>>

(***************************************************************************)
(* Bounds of the model.                                                     *)
(***************************************************************************)
MaxPoints == 6
MaxProduced == 2
MaxProducedLong == 12
MaxBatchPoints == 4

MaxEstimates == 3

MaxTrackLen == 7

MaxShiftPoints == 3

MaxCandidates == 2

\* entries kept in the lookup cache during a run (the code's maxsize is 128)
MaxCached == 2

(***************************************************************************)
(* Program constants.                                                       *)
(***************************************************************************)
max_history_size == 10
fusion_trigger_size == 5
recent_window_seconds == 1800
grid_density == 20

None == [none |-> TRUE]

Datetime(t) == [tag |-> "datetime", sec |-> t]

Timestamps == {0, 1801}

BoatIds == {"A", "B"}

(***************************************************************************)
(* add_wind_data_point                                                      *)
(***************************************************************************)
required_keys == {"timestamp", "latitude", "longitude", "wind_direction", "wind_speed"}

\* datetime.fromtimestamp: an epoch number becomes a datetime, anything else raises
FromTimestamp(x) ==
    IF x.tag = "number" THEN [ok |-> TRUE, value |-> Datetime(x.sec)]
    ELSE [ok |-> FALSE]

FullPoint(ts) ==
    [timestamp |-> ts, latitude |-> 35, longitude |-> 139,
     wind_direction |-> 90, wind_speed |-> 500000]

Without(p, k) == [x \in (DOMAIN p) \ {k} |-> p[x]]

AddInputs ==
    {FullPoint(Datetime(t)) : t \in Timestamps}
    \cup {FullPoint([tag |-> "number", sec |-> 1801])}
    \cup {FullPoint([tag |-> "str"])}
    \cup {Without(FullPoint(Datetime(0)), k) : k \in required_keys}

(***************************************************************************)
(* fuse_wind_data                                                           *)
(***************************************************************************)
RECURSIVE InsertByTimestamp(_, _)
InsertByTimestamp(s, p) ==
    IF s = <<>> THEN <<p>>
    ELSE IF s[Len(s)].timestamp.sec <= p.timestamp.sec THEN Append(s, p)
    ELSE Append(InsertByTimestamp(SubSeq(s, 1, Len(s) - 1), p), s[Len(s)])

\* sorted(self.wind_data_points, key=lambda x: x['timestamp']) (stable)
RECURSIVE SortedData(_)
SortedData(points) ==
    IF points = <<>> THEN <<>>
    ELSE InsertByTimestamp(SortedData(SubSeq(points, 1, Len(points) - 1)),
                           points[Len(points)])

LatestTime(points) == SortedData(points)[Len(points)].timestamp

TotalSeconds(a, b) == a.sec - b.sec

IsRecent(latest_time, point) ==
    TotalSeconds(latest_time, point.timestamp) <= recent_window_seconds

RecentData(points) ==
    SelectSeq(SortedData(points), LAMBDA p : IsRecent(LatestTime(points), p))

\* the result of WindFieldInterpolator.interpolate_wind_field(data, resolution, method)
Grid(shape, data) == [shape |-> shape, data |-> data]

InterpolatedGrid(n, res, q) == Grid(<<res, res>>, [kind |-> "interp", id |-> n, q |-> q])

InterpolatedField(n, res) ==
    [lat_grid |-> InterpolatedGrid(n, res, "lat"),
     lon_grid |-> InterpolatedGrid(n, res, "lon"),
     wind_direction |-> InterpolatedGrid(n, res, "dir"),
     wind_speed |-> InterpolatedGrid(n, res, "speed"),
     confidence |-> InterpolatedGrid(n, res, "conf"),
     id |-> n]

\* self.current_wind_field['time'] = latest_time
WithTime(f, t) ==
    [lat_grid |-> f.lat_grid, lon_grid |-> f.lon_grid,
     wind_direction |-> f.wind_direction, wind_speed |-> f.wind_speed,
     confidence |-> f.confidence, id |-> f.id, time |-> t]

\* what the IDW call and, when it is made, the nearest call do
FuseOutcomes ==
    { [idw |-> "field", nearest |-> "not_tried"],
      [idw |-> "none",  nearest |-> "not_tried"],
      [idw |-> "raise", nearest |-> "field"],
      [idw |-> "raise", nearest |-> "none"],
      [idw |-> "raise", nearest |-> "raise"] }

NoFuse == [idw |-> "not_run", nearest |-> "not_run"]

ProducesField(o) == o.idw = "field" \/ (o.idw = "raise" /\ o.nearest = "field")

\* variant: the newest entry is the one dropped when the history is full
PushHistory_PopNewest(history, item) ==
    LET appended == Append(history, item)
    IN  IF Len(appended) > max_history_size
        THEN SubSeq(appended, 1, Len(appended) - 1) ELSE appended

\* self.wind_field_history.append(...), then pop(0) beyond max_history_size
PushHistory(history, item) ==
    LET appended == Append(history, item)
    IN  IF Len(appended) > max_history_size THEN Tail(appended) ELSE appended

\* variant: the fused field becomes current without a snapshot in the history
FuseWindData_NoSnapshot(points, o) ==
    IF points = <<>> THEN
        UNCHANGED <<current_wind_field, wind_field_history, last_fusion_time, produced>>
    ELSE
        LET latest_time == LatestTime(points)
            field == WithTime(InterpolatedField(produced + 1, grid_density), latest_time)
        IN  /\ last_fusion_time' = latest_time
            /\ IF ProducesField(o)
               THEN /\ current_wind_field' = field
                    /\ produced' = produced + 1
                    /\ UNCHANGED wind_field_history
               ELSE /\ current_wind_field' = None
                    /\ UNCHANGED <<wind_field_history, produced>>

\* fuse_wind_data on the buffer `points`, the interpolator behaving as `o`
FuseWindData(points, o) ==
    IF points = <<>> THEN
        UNCHANGED <<current_wind_field, wind_field_history, last_fusion_time, produced>>
    ELSE
        LET latest_time == LatestTime(points)
            field == WithTime(InterpolatedField(produced + 1, grid_density), latest_time)
        IN  /\ last_fusion_time' = latest_time
            /\ IF ProducesField(o)
               THEN /\ current_wind_field' = field
                    /\ wind_field_history' =
                           PushHistory(wind_field_history,
                                       [time |-> latest_time, field |-> field])
                    /\ produced' = produced + 1
               ELSE /\ current_wind_field' = None
                    /\ UNCHANGED <<wind_field_history, produced>>

\* a direct call of fuse_wind_data()
FuseCall(o) ==
    /\ FuseWindData(wind_data_points, o)
    /\ last' = [op |-> "fuse", accepted |-> TRUE,
                ran |-> IF wind_data_points = <<>> THEN 0 ELSE 1,
                outcome |-> IF wind_data_points = <<>> THEN NoFuse ELSE o]
    /\ UNCHANGED wind_data_points

(***************************************************************************)
(* add_wind_data_point(data_point)                                          *)
(***************************************************************************)
\* variant: wind_speed is not among the keys that are checked
AddRejected_SpeedUnchecked(data_point) ==
    \/ ~((required_keys \ {"wind_speed"}) \subseteq DOMAIN data_point)
    \/ /\ data_point.timestamp.tag # "datetime"
       /\ ~FromTimestamp(data_point.timestamp).ok

AddRejected(data_point) ==
    \/ ~(required_keys \subseteq DOMAIN data_point)
    \/ /\ data_point.timestamp.tag # "datetime"
       /\ ~FromTimestamp(data_point.timestamp).ok

Coerced(data_point) ==
    IF data_point.timestamp.tag = "datetime" THEN data_point
    ELSE [data_point EXCEPT !.timestamp = FromTimestamp(data_point.timestamp).value]

\* variant: fusion starts one point late
TriggersFusion_Strict(points) == Len(points) > fusion_trigger_size

\* if len(self.wind_data_points) >= 5
TriggersFusion(points) == Len(points) >= fusion_trigger_size

AddWindDataPoint(data_point, o) ==
    IF AddRejected(data_point) THEN
        /\ last' = [op |-> "add", accepted |-> FALSE, ran |-> 0, outcome |-> NoFuse,
                    data_point |-> data_point]
        /\ UNCHANGED <<wind_data_points, current_wind_field, wind_field_history,
                       last_fusion_time, produced>>
    ELSE
        LET points == Append(wind_data_points, Coerced(data_point))
        IN  /\ wind_data_points' = points
            /\ IF TriggersFusion(points)
               THEN /\ FuseWindData(points, o)
                    /\ last' = [op |-> "add", accepted |-> TRUE, ran |-> 1, outcome |-> o,
                                data_point |-> data_point]
               ELSE /\ last' = [op |-> "add", accepted |-> TRUE, ran |-> 0,
                                outcome |-> NoFuse, data_point |-> data_point]
                    /\ UNCHANGED <<current_wind_field, wind_field_history,
                                   last_fusion_time, produced>>

(***************************************************************************)
(* update_with_boat_data(boats_data)                                        *)
(***************************************************************************)
required_columns ==
    {"timestamp", "latitude", "longitude", "wind_direction", "wind_speed_knots"}

\* variant: the value in knots is stored as it is
KnotsToMs_Unconverted(knots) == knots * 100000

\* row.get('wind_speed_knots', 0) * 0.51444, in 1e-5 m/s
KnotsToMs(knots) == knots * 51444

RowPoint(row, boat_id) ==
    LET base == [timestamp |-> row.timestamp, latitude |-> row.latitude,
                 longitude |-> row.longitude, wind_direction |-> row.wind_direction,
                 wind_speed |-> KnotsToMs(row.wind_speed_knots), boat_id |-> boat_id]
    IN  IF "confidence" \in DOMAIN row
        THEN [k \in DOMAIN base \cup {"confidence"} |->
                 IF k = "confidence" THEN row.confidence ELSE base[k]]
        ELSE base

TableUsable(boat_df) ==
    /\ boat_df.rows # <<>>
    /\ required_columns \subseteq boat_df.columns

TablePoints(boat_id, boat_df) ==
    IF TableUsable(boat_df)
    THEN [i \in 1..Len(boat_df.rows) |-> RowPoint(boat_df.rows[i], boat_id)]
    ELSE <<>>

\* the loop over boats_data.items(), in the dictionary's order
RECURSIVE BoatPoints(_)
BoatPoints(boats_data) ==
    IF boats_data = <<>> THEN <<>>
    ELSE TablePoints(boats_data[1].boat_id, boats_data[1].table)
         \o BoatPoints(Tail(boats_data))

\* variant: the buffer is reset only when the tables bring usable rows
UpdateWithBoatData_KeepsBuffer(boats_data, o) ==
    LET points == BoatPoints(boats_data)
    IN  /\ wind_data_points' = IF points = <<>> THEN wind_data_points ELSE points
        /\ FuseWindData(points, o)
        /\ last' = [op |-> "update", accepted |-> TRUE,
                    ran |-> IF points = <<>> THEN 0 ELSE 1,
                    outcome |-> IF points = <<>> THEN NoFuse ELSE o,
                    boats_data |-> boats_data,
                    before |-> Len(wind_data_points),
                    returned |-> current_wind_field']

UpdateWithBoatData(boats_data, o) ==
    LET points == BoatPoints(boats_data)
    IN  /\ wind_data_points' = points
        /\ FuseWindData(points, o)
        /\ last' = [op |-> "update", accepted |-> TRUE,
                    ran |-> IF points = <<>> THEN 0 ELSE 1,
                    outcome |-> IF points = <<>> THEN NoFuse ELSE o,
                    boats_data |-> boats_data,
                    before |-> Len(wind_data_points),
                    returned |-> current_wind_field']

Row(t, knots) ==
    [timestamp |-> Datetime(t), latitude |-> 35, longitude |-> 139,
     wind_direction |-> 270, wind_speed_knots |-> knots]

RowWithConfidence(t, knots, c) ==
    [timestamp |-> Datetime(t), latitude |-> 35, longitude |-> 139,
     wind_direction |-> 270, wind_speed_knots |-> knots, confidence |-> c]

EmptyTable == [columns |-> required_columns, rows |-> <<>>]

MissingColumnTable ==
    [columns |-> required_columns \ {"wind_direction"},
     rows |-> << [timestamp |-> Datetime(0), latitude |-> 35, longitude |-> 139,
                  wind_speed_knots |-> 10] >>]

OneRowTable == [columns |-> required_columns, rows |-> << Row(1801, 10) >>]

TwoRowTable ==
    [columns |-> required_columns \cup {"confidence"},
     rows |-> << RowWithConfidence(0, 8, 700), RowWithConfidence(1801, 12, 900) >>]

Boat(b, t) == [boat_id |-> b, table |-> t]

BoatsDataInputs ==
    { <<>>,
      << Boat("A", EmptyTable) >>,
      << Boat("A", MissingColumnTable), Boat("B", EmptyTable) >>,
      << Boat("A", OneRowTable) >>,
      << Boat("B", TwoRowTable), Boat("A", OneRowTable) >>,
      << Boat("A", EmptyTable), Boat("B", TwoRowTable) >>,
      << Boat("A", MissingColumnTable), Boat("B", OneRowTable) >> }

(***************************************************************************)
(* Trigonometry in fixed point: angles in whole degrees, sines in 1/1000.   *)
(***************************************************************************)
SinTable ==
    << 0, 17, 35, 52, 70, 87, 105, 122, 139, 156, 174, 191, 208,
       225, 242, 259, 276, 292, 309, 326, 342, 358, 375, 391, 407, 423,
       438, 454, 469, 485, 500, 515, 530, 545, 559, 574, 588, 602, 616,
       629, 643, 656, 669, 682, 695, 707, 719, 731, 743, 755, 766, 777,
       788, 799, 809, 819, 829, 839, 848, 857, 866, 875, 883, 891, 899,
       906, 914, 921, 927, 934, 940, 946, 951, 956, 961, 966, 970, 974,
       978, 982, 985, 988, 990, 993, 995, 996, 998, 999, 999, 1000, 1000 >>

\* np.sin(np.radians(d)) for a whole number of degrees d
Sin(d) ==
    LET a == d % 360
    IN  IF a <= 90 THEN SinTable[a + 1]
        ELSE IF a <= 180 THEN SinTable[180 - a + 1]
        ELSE IF a <= 270 THEN 0 - SinTable[a - 180 + 1]
        ELSE 0 - SinTable[360 - a + 1]

\* np.cos(np.radians(d))
Cos(d) == Sin(d + 90)

Abs(x) == IF x < 0 THEN 0 - x ELSE x

\* the angle in 0..90 whose tangent is s / c (s, c >= 0, not both 0), to the degree
\* (large arguments are first scaled down together to keep the products in range)
AcuteAngle(s, c) ==
    LET k == ((IF s >= c THEN s ELSE c) \div 1000000) + 1
    IN  Cardinality({ e \in 1..90 : Sin(e) * (c \div k) <= (s \div k) * Cos(e) })

\* np.degrees(np.arctan2(s, c)) % 360, to the degree
Atan2Deg(s, c) ==
    IF s = 0 /\ c = 0 THEN 0
    ELSE LET base == AcuteAngle(Abs(s), Abs(c))
         IN  IF s >= 0 /\ c >= 0 THEN base
             ELSE IF s >= 0 THEN 180 - base
             ELSE IF c < 0 THEN 180 + base
             ELSE (360 - base) % 360

(***************************************************************************)
(* Grids.  Indices are numpy's (from 0).                                    *)
(***************************************************************************)
CeilDiv(a, b) == (a + b - 1) \div b

\* the contents of a field returned by the interpolator: coordinates laid out
\* as np.meshgrid lays them out, in 1/1000 of a grid step
InterpCell(n, q, i, j) ==
    CASE q = "lat"   -> 1000 * j
      [] q = "lon"   -> 1000 * i
      [] q = "dir"   -> (40 * n + 7 * i + 13 * j) % 360
      [] q = "speed" -> 300000 + 10000 * i + 5000 * j + 1000 * n
      [] q = "conf"  -> 500 + 10 * ((i + 2 * j + n) % 40)

\* what WindPropagationModel.predict_future_wind returns for the cells it predicts
Prediction(q, i, j) ==
    CASE q = "dir"   -> (200 + 3 * i + j) % 360
      [] q = "speed" -> 700000 + 2000 * i
      [] q = "conf"  -> 450

\* the cells for which predict_future_wind returns a prediction
Masks == {"all", "none", "even"}

Predicts(mask, i, j) ==
    CASE mask = "all"  -> TRUE
      [] mask = "none" -> FALSE
      [] mask = "even" -> (i + j) % 2 = 0

\* variant: the fallback keeps the full confidence
PenalisedConfidence_NoPenalty(c) == c

\* self.current_wind_field['confidence'][i_full, j_full] * 0.7
PenalisedConfidence(c) == (c * 7) \div 10

\* np.zeros_like cells that no branch fills: 0, 0 and confidence 0.3
FallbackDefault(q) == IF q = "conf" THEN 300 ELSE 0

\* the value of cell [i, j] of a grid, defined below
RECURSIVE Cell(_, _, _)

\* a[::sf, ::sf]
Strided(g, sf) ==
    Grid(<<CeilDiv(g.shape[1], sf), CeilDiv(g.shape[2], sf)>>,
         [kind |-> "stride", of |-> g, sf |-> sf])

\* predicted_dirs / predicted_speeds / predicted_conf after the loop over cells
PredictedGrid(q, pred_lat_grid, mask, sample_factor, current) ==
    Grid(pred_lat_grid.shape,
         [kind |-> "predicted", q |-> q, mask |-> mask, sf |-> sample_factor,
          full_shape |-> current.lat_grid.shape,
          current |-> CASE q = "dir"   -> current.wind_direction
                        [] q = "speed" -> current.wind_speed
                        [] q = "conf"  -> current.confidence])

PredictedCell(d, i, j) ==
    IF Predicts(d.mask, i, j) THEN Prediction(d.q, i, j)
    ELSE LET i_full == i * d.sf
             j_full == j * d.sf
         IN  IF i_full < d.full_shape[1] /\ j_full < d.full_shape[2]
             THEN IF d.q = "conf"
                  THEN PenalisedConfidence(Cell(d.current, i_full, j_full))
                  ELSE Cell(d.current, i_full, j_full)
             ELSE FallbackDefault(d.q)

\* np.linspace(lo, hi, n)[k]
Linspace(lo, hi, n, k) == IF n <= 1 THEN lo ELSE lo + (k * (hi - lo)) \div (n - 1)

\* new_grid_lats, new_grid_lons = np.meshgrid(new_lat_grid, new_lon_grid)
MeshGrid(q, pred_grid, grid_resolution) ==
    Grid(<<grid_resolution, grid_resolution>>,
         [kind |-> "mesh", q |-> q, of |-> pred_grid, n |-> grid_resolution])

MeshCell(d, i, j) ==
    LET lo == Cell(d.of, 0, 0)
        hi == Cell(d.of, d.of.shape[1] - 1, d.of.shape[2] - 1)
    IN  Linspace(lo, hi, d.n, IF d.q = "lat" THEN j ELSE i)

\* scipy griddata(points, values, xi, method='linear') at target cell (i, j): the
\* barycentric interpolation in the triangle of the source grid that holds the
\* target point; `diag` is the diagonal the triangulation put into each square
LinearAt(values, n_rows, n_cols, res, diag, i, j) ==
    LET den == IF res <= 1 THEN 1 ELSE res - 1
        na == i * (n_rows - 1)
        nb == j * (n_cols - 1)
        a0 == na \div den
        b0 == nb \div den
        ra == na % den
        rb == nb % den
        a1 == IF a0 + 1 < n_rows THEN a0 + 1 ELSE a0
        b1 == IF b0 + 1 < n_cols THEN b0 + 1 ELSE b0
        v00 == values[<<a0, b0>>]
        v10 == values[<<a1, b0>>]
        v01 == values[<<a0, b1>>]
        v11 == values[<<a1, b1>>]
    IN  IF diag = "main"
        THEN IF ra >= rb
             THEN den * v00 + ra * (v10 - v00) + rb * (v11 - v10)
             ELSE den * v00 + rb * (v01 - v00) + ra * (v11 - v01)
        ELSE IF ra + rb <= den
             THEN den * v00 + ra * (v10 - v00) + rb * (v01 - v00)
             ELSE den * v11 + (den - ra) * (v01 - v11) + (den - rb) * (v10 - v11)

\* the grid cells around target cell (i, j) that LinearAt reads
Corners(n_rows, n_cols, res, i, j) ==
    LET den == IF res <= 1 THEN 1 ELSE res - 1
        a0 == (i * (n_rows - 1)) \div den
        b0 == (j * (n_cols - 1)) \div den
        a1 == IF a0 + 1 < n_rows THEN a0 + 1 ELSE a0
        b1 == IF b0 + 1 < n_cols THEN b0 + 1 ELSE b0
    IN  {<<a0, b0>>, <<a1, b0>>, <<a0, b1>>, <<a1, b1>>}

\* variant: the interpolated values are left as the flat array griddata returns
Reshaped_Flat(data, target_lat_grid) ==
    Grid(<<target_lat_grid.shape[1] * target_lat_grid.shape[2]>>, data)

\* interp.reshape(target_lat_grid.shape)
Reshaped(data, target_lat_grid) == Grid(target_lat_grid.shape, data)

RegridData(q, source, res, diag) ==
    [kind |-> "regrid", q |-> q, of |-> source, n |-> res, diag |-> diag]

RegridCell(d, i, j) ==
    LET rows == d.of.shape[1]
        cols == d.of.shape[2]
        den == IF d.n <= 1 THEN 1 ELSE d.n - 1
        at == Corners(rows, cols, d.n, i, j)
    IN  IF d.q = "dir"
        THEN LET sin_dirs == [c \in at |-> Sin(Cell(d.of, c[1], c[2]))]
                 cos_dirs == [c \in at |-> Cos(Cell(d.of, c[1], c[2]))]
             IN  Atan2Deg(LinearAt(sin_dirs, rows, cols, d.n, d.diag, i, j),
                          LinearAt(cos_dirs, rows, cols, d.n, d.diag, i, j))
        ELSE LET values == [c \in at |-> Cell(d.of, c[1], c[2])]
             IN  LinearAt(values, rows, cols, d.n, d.diag, i, j) \div den

\* the value of cell [i, j] of a grid
Cell(g, i, j) ==
    CASE g.data.kind = "interp"    -> InterpCell(g.data.id, g.data.q, i, j)
      [] g.data.kind = "stride"    -> Cell(g.data.of, i * g.data.sf, j * g.data.sf)
      [] g.data.kind = "predicted" -> PredictedCell(g.data, i, j)
      [] g.data.kind = "mesh"      -> MeshCell(g.data, i, j)
      [] g.data.kind = "regrid"    -> RegridCell(g.data, i, j)

(***************************************************************************)
(* predict_wind_field                                                       *)
(***************************************************************************)
near_window_seconds == 300

Max(a, b) == IF a >= b THEN a ELSE b

Min(a, b) == IF a <= b THEN a ELSE b

\* abs(time_diff_seconds) <= 300
IsNear(target_time, current_time) ==
    Abs(TotalSeconds(target_time, current_time)) <= near_window_seconds

\* sample_factor = max(1, grid_resolution // 10)
SampleFactor(grid_resolution) == Max(1, grid_resolution \div 10)

\* scipy's triangulation needs points that span the plane
CanTriangulate(source_lat_grid) ==
    source_lat_grid.shape[1] >= 2 /\ source_lat_grid.shape[2] >= 2

InterpolateFieldToGrid(source_field, target_lat_grid, target_lon_grid, call) ==
    IF call.regrid = "raise" \/ ~CanTriangulate(source_field.lat_grid)
    THEN None
    ELSE LET n == target_lat_grid.shape[1]
         IN  [lat_grid |-> target_lat_grid,
              lon_grid |-> target_lon_grid,
              wind_direction |->
                  Reshaped(RegridData("dir", source_field.wind_direction, n, call.diag),
                           target_lat_grid),
              wind_speed |->
                  Reshaped(RegridData("speed", source_field.wind_speed, n, call.diag),
                           target_lat_grid),
              confidence |->
                  Reshaped(RegridData("conf", source_field.confidence, n, call.diag),
                           target_lat_grid),
              time |-> source_field.time]

\* the prediction arrays of the long-range branch, as a field
PredictedField(target_time, grid_resolution, call) ==
    LET sample_factor == SampleFactor(grid_resolution)
        pred_lat_grid == Strided(current_wind_field.lat_grid, sample_factor)
        pred_lon_grid == Strided(current_wind_field.lon_grid, sample_factor)
    IN  [lat_grid |-> pred_lat_grid,
         lon_grid |-> pred_lon_grid,
         wind_direction |-> PredictedGrid("dir", pred_lat_grid, call.mask,
                                          sample_factor, current_wind_field),
         wind_speed |-> PredictedGrid("speed", pred_lat_grid, call.mask,
                                      sample_factor, current_wind_field),
         confidence |-> PredictedGrid("conf", pred_lat_grid, call.mask,
                                      sample_factor, current_wind_field),
         time |-> target_time]

\* what one call computes: the branch taken, whether the propagation model was
\* consulted, the prediction arrays, whether they were re-gridded, the result
PredictOutcome(target_time, grid_resolution, call) ==
    IF current_wind_field = None
    THEN [path |-> "none", consulted |-> FALSE, raised |-> FALSE,
          predicted |-> None, regridded |-> FALSE, returned |-> None]
    ELSE IF IsNear(target_time, last_fusion_time)
    THEN [path |-> "near", consulted |-> FALSE, raised |-> call.interp = "raise",
          predicted |-> None, regridded |-> FALSE,
          returned |-> IF call.interp = "field"
                       THEN InterpolatedField(0, grid_resolution) ELSE None]
    ELSE LET predicted_field == PredictedField(target_time, grid_resolution, call)
             pred_lat_grid == predicted_field.lat_grid
         IN  IF grid_resolution # pred_lat_grid.shape[1]
             THEN LET result ==
                          InterpolateFieldToGrid(
                              predicted_field,
                              MeshGrid("lat", pred_lat_grid, grid_resolution),
                              MeshGrid("lon", predicted_field.lon_grid, grid_resolution),
                              call)
                  IN  [path |-> "far", consulted |-> TRUE, raised |-> FALSE,
                       predicted |-> predicted_field,
                       regridded |-> result # None,
                       returned |-> IF result = None THEN predicted_field ELSE result]
             ELSE [path |-> "far", consulted |-> TRUE, raised |-> FALSE,
                   predicted |-> predicted_field, regridded |-> FALSE,
                   returned |-> predicted_field]

PredictWindField(target_time, grid_resolution, call) ==
    LET out == PredictOutcome(target_time, grid_resolution, call)
    IN  /\ last' = [op |-> "predict", accepted |-> TRUE, ran |-> 0, outcome |-> NoFuse,
                    target_time |-> target_time, grid_resolution |-> grid_resolution,
                    call |-> call, path |-> out.path, consulted |-> out.consulted,
                    raised |-> out.raised, predicted |-> out.predicted,
                    regridded |-> out.regridded, returned |-> out.returned]
        /\ UNCHANGED <<wind_data_points, current_wind_field, wind_field_history,
                       last_fusion_time, produced>>

\* what the collaborators may do during one call; only the branch taken reads it
NoCall == [interp |-> "not_run", mask |-> "none", regrid |-> "not_run", diag |-> "main"]

PredictCalls(target_time, grid_resolution) ==
    IF current_wind_field = None THEN {NoCall}
    ELSE IF IsNear(target_time, last_fusion_time)
    THEN {[NoCall EXCEPT !.interp = x] : x \in {"field", "none", "raise"}}
    ELSE {[interp |-> "not_run", mask |-> m, regrid |-> r, diag |-> d] :
              m \in Masks, r \in {"ok", "raise"}, d \in {"main", "anti"}}

(***************************************************************************)
(* WindEstimator: estimate_wind_from_single_boat and                        *)
(* estimate_wind_from_multiple_boats.  A track is described by what the     *)
(* validity checks read: its number of points, the kind of its timestamp    *)
(* column and the seconds it spans, whether it has the bearing and speed    *)
(* columns, whether the hybrid direction estimate succeeds on it, and its   *)
(* boat_id column.                                                          *)
(***************************************************************************)
min_valid_duration == 60

min_valid_points == 20

Raise == [raise |-> TRUE]

EmptyMap == [k \in {} |-> None]

\* map[k] = v
Put(map, k, v) == [x \in (DOMAIN map) \cup {k} |-> IF x = k THEN v ELSE map[x]]

Track(points, timestamps, span, columns, estimable, has_boat_id, boat_id) ==
    [points |-> points, timestamps |-> timestamps, span |-> span,
     columns |-> columns, estimable |-> estimable,
     has_boat_id |-> has_boat_id, boat_id |-> boat_id]

\* the duration the validity check uses: the span of the timestamps when they
\* are or convert to datetimes, otherwise 5 seconds per point
Duration(gps_data) ==
    IF gps_data.timestamps \in {"datetime64", "objects"}
    THEN gps_data.span
    ELSE gps_data.points * 5

\* variant: a short track always goes on
ContinuesWhenShort_Always(gps_data) == TRUE

\* len(gps_data) > self.min_valid_points * 2
ContinuesWhenShort(gps_data) == gps_data.points > min_valid_points * 2

\* window_size = max(len(df) // 10, 20)
WindowSize(n) == Max(n \div 10, 20)

\* the windows of range(0, len(df), window_size // 2) that are not skipped
Windows(n) ==
    { i \in 0 .. (n - 1) :
          /\ i % (WindowSize(n) \div 2) = 0
          /\ Min(i + WindowSize(n), n) - i >= WindowSize(n) \div 2 }

\* df['boat_id'].iloc[0] if 'boat_id' in df.columns else 'Unknown'
BoatIdOf(gps_data) == IF gps_data.has_boat_id THEN gps_data.boat_id ELSE "Unknown"

WindTable(gps_data) ==
    [boat_id |-> BoatIdOf(gps_data), rows |-> Cardinality(Windows(gps_data.points))]

IsTable(r) == "rows" \in DOMAIN r

\* what estimate_wind_from_single_boat returns (or that it raises)
SingleBoatResult(gps_data) ==
    IF gps_data.points < min_valid_points THEN None
    ELSE IF ~gps_data.columns THEN None
    ELSE IF Duration(gps_data) < min_valid_duration /\ ~ContinuesWhenShort(gps_data)
    THEN None
    ELSE IF ~gps_data.estimable THEN None
    ELSE IF gps_data.timestamps = "text" THEN Raise
    ELSE IF Windows(gps_data.points) = {} THEN None
    ELSE WindTable(gps_data)

\* variant: the result is stored before it is known to be a table
AfterSingleBoat_StoresAlways(estimates, gps_data) ==
    Put(estimates, BoatIdOf(gps_data), SingleBoatResult(gps_data))

\* self.wind_estimates after estimate_wind_from_single_boat
AfterSingleBoat(estimates, gps_data) ==
    LET r == SingleBoatResult(gps_data)
    IN  IF IsTable(r) THEN Put(estimates, BoatIdOf(gps_data), r) ELSE estimates

EstimateWindFromSingleBoat(gps_data) ==
    /\ wind_estimates' = AfterSingleBoat(wind_estimates, gps_data)
    /\ last' = [op |-> "single", accepted |-> TRUE, ran |-> 0, outcome |-> NoFuse,
                gps_data |-> gps_data, returned |-> SingleBoatResult(gps_data)]
    /\ UNCHANGED <<wind_data_points, current_wind_field, wind_field_history,
                   last_fusion_time, produced>>

\* the loop over boats_data.items()
RECURSIVE EstimateEach(_, _)
EstimateEach(estimates, boats_data) ==
    IF boats_data = <<>> THEN [estimates |-> estimates, raised |-> FALSE]
    ELSE LET boat_id == Head(boats_data).key
             gps_data == Head(boats_data).gps_data
             wind_estimate == SingleBoatResult(gps_data)
         IN  IF boat_id \in DOMAIN estimates
             THEN EstimateEach(estimates, Tail(boats_data))
             ELSE IF wind_estimate = Raise
             THEN [estimates |-> estimates, raised |-> TRUE]
             ELSE IF IsTable(wind_estimate)
             THEN EstimateEach(Put(AfterSingleBoat(estimates, gps_data),
                                   boat_id, wind_estimate),
                               Tail(boats_data))
             ELSE EstimateEach(estimates, Tail(boats_data))

EstimateWindFromMultipleBoats(boats_data) ==
    LET out == EstimateEach(wind_estimates, boats_data)
    IN  /\ wind_estimates' = IF boats_data = <<>> THEN wind_estimates ELSE out.estimates
        /\ last' = [op |-> "multiple", accepted |-> TRUE, ran |-> 0, outcome |-> NoFuse,
                    boats_data |-> boats_data, before |-> wind_estimates,
                    raised |-> boats_data # <<>> /\ out.raised,
                    returned |-> IF boats_data = <<>> THEN EmptyMap ELSE out.estimates]
        /\ UNCHANGED <<wind_data_points, current_wind_field, wind_field_history,
                       last_fusion_time, produced>>

(***************************************************************************)
(* WindEstimator.estimate_wind_direction_hybrid.  The three sub-estimators  *)
(* are inputs: each reports <<direction, confidence>>, direction in whole   *)
(* degrees, confidence in 1/1000; data_quality is in 1/1000.                *)
(***************************************************************************)
min_hybrid_points == 10

Estimate(method, direction, confidence) ==
    [method |-> method, direction |-> direction, confidence |-> confidence]

\* the estimates dict in insertion order: the polar estimate is entered only
\* with a positive confidence, the other two always
HybridEstimates(speed, polar, vmg) ==
    << Estimate("speed_patterns", speed[1], speed[2]) >>
    \o (IF polar[2] > 0 THEN << Estimate("polar_data", polar[1], polar[2]) >> ELSE << >>)
    \o << Estimate("optimal_vmg", vmg[1], vmg[2]) >>

RECURSIVE SumSeq(_)
SumSeq(seq) == IF seq = << >> THEN 0 ELSE Head(seq) + SumSeq(Tail(seq))

RECURSIVE MaxConfidence(_)
MaxConfidence(estimates) ==
    IF Len(estimates) = 1 THEN estimates[1].confidence
    ELSE Max(estimates[1].confidence, MaxConfidence(Tail(estimates)))

\* _weighted_angle_consensus, to the degree
WeightedAngleConsensus(results) ==
    LET used == SelectSeq(results, LAMBDA e : e.confidence > 0)
        sin_sum == SumSeq([k \in 1 .. Len(used) |->
                              Sin(used[k].direction) * used[k].confidence])
        cos_sum == SumSeq([k \in 1 .. Len(used) |->
                              Cos(used[k].direction) * used[k].confidence])
        weight_sum == SumSeq([k \in 1 .. Len(used) |-> used[k].confidence])
    IN  IF results = << >> THEN 0
        ELSE IF used = << >> THEN 0
        ELSE IF weight_sum <= 0 THEN used[1].direction
        ELSE Atan2Deg(sin_sum, cos_sum)

\* lines 351-365: direction and confidence from the estimates dict
CombineEstimates(estimates, data_quality) ==
    IF estimates = << >> THEN <<0, 0>>
    ELSE LET max_confidence == MaxConfidence(estimates)
             avg_confidence ==
                 SumSeq([k \in 1 .. Len(estimates) |-> estimates[k].confidence])
                     \div Len(estimates)
             final_confidence == (7 * max_confidence + 3 * avg_confidence) \div 10
         IN  << WeightedAngleConsensus(estimates),
                (final_confidence * data_quality) \div 1000 >>

EstimateWindDirectionHybrid(points, speed, polar, vmg, data_quality) ==
    IF points < min_hybrid_points THEN <<0, 0>>
    ELSE CombineEstimates(HybridEstimates(speed, polar, vmg), data_quality)

HybridCall(points, speed, polar, vmg, data_quality) ==
    /\ last' = [op |-> "hybrid", accepted |-> TRUE, ran |-> 0, outcome |-> NoFuse,
                points |-> points, speed |-> speed, polar |-> polar, vmg |-> vmg,
                data_quality |-> data_quality,
                returned |-> EstimateWindDirectionHybrid(points, speed, polar, vmg,
                                                        data_quality)]
    /\ UNCHANGED <<wind_data_points, current_wind_field, wind_field_history,
                   last_fusion_time, produced, wind_estimates, wind_cache>>

(***************************************************************************)
(* The window loop of estimate_wind_from_single_boat: the confidence of     *)
(* each window estimate, in 1/1000, for a track of n evenly spaced points   *)
(* whose hybrid estimate has confidence confidence_score.                   *)
(***************************************************************************)
\* the start index of the k-th window (k from 1)
WindowStart(n, k) == (k - 1) * (WindowSize(n) \div 2)

\* time_factor of the window starting at index i, in 1/1000
TimeFactor(n, i) == (1000 * i) \div Max(1, n - 1)

\* time_confidence = max(0.3, 1.0 - abs(0.5 - time_factor) * 0.3)
TimeConfidence(time_factor) == Max(300, 1000 - (Abs(500 - time_factor) * 3) \div 10)

\* window_confidence = confidence_score * time_confidence
WindowConfidence(n, k, confidence_score) ==
    (confidence_score * TimeConfidence(TimeFactor(n, WindowStart(n, k)))) \div 1000

\* updated_confidence = min(0.95, (prior_confidence + window_confidence * alpha) / 2)
UpdatedConfidence(prior_confidence, window_confidence) ==
    Min(950, (prior_confidence + (window_confidence * 3) \div 10) \div 2)

\* the 'confidence' entry of the k-th window estimate
RECURSIVE EstimateConfidence(_, _, _, _)
EstimateConfidence(n, k, confidence_score, use_bayesian) ==
    IF use_bayesian /\ k > 1
    THEN UpdatedConfidence(EstimateConfidence(n, k - 1, confidence_score, use_bayesian),
                           WindowConfidence(n, k, confidence_score))
    ELSE WindowConfidence(n, k, confidence_score)

\* the confidence column of the returned table
ConfidenceColumn(n, confidence_score, use_bayesian) ==
    [k \in 1 .. Cardinality(Windows(n)) |->
        EstimateConfidence(n, k, confidence_score, use_bayesian)]

WindowLoop(n, confidence_score, use_bayesian) ==
    /\ last' = [op |-> "windows", accepted |-> TRUE, ran |-> 0, outcome |-> NoFuse,
                points |-> n, confidence_score |-> confidence_score,
                use_bayesian |-> use_bayesian,
                confidence |-> ConfidenceColumn(n, confidence_score, use_bayesian)]
    /\ UNCHANGED <<wind_data_points, current_wind_field, wind_field_history,
                   last_fusion_time, produced, wind_estimates, wind_cache>>

(***************************************************************************)
(* WindEstimator._categorize_maneuver, on whole degrees.                    *)
(***************************************************************************)
\* (bearing - wind_direction + 360) % 360
RelativeAngle(bearing, wind_direction) == (bearing - wind_direction + 360) % 360

\* variant: upwind means within 45 degrees of the wind
IsUpwind_Within45(rel) == (0 <= rel /\ rel <= 45) \/ (315 <= rel /\ rel <= 360)

\* 0 <= rel <= 90 or 270 <= rel <= 360
IsUpwind(rel) == (0 <= rel /\ rel <= 90) \/ (270 <= rel /\ rel <= 360)

CategorizeManeuver(before_bearing, after_bearing, wind_direction) ==
    LET is_upwind_before == IsUpwind(RelativeAngle(before_bearing, wind_direction))
        is_upwind_after == IsUpwind(RelativeAngle(after_bearing, wind_direction))
    IN  IF is_upwind_before /\ is_upwind_after THEN "tack"
        ELSE IF ~is_upwind_before /\ ~is_upwind_after THEN "jibe"
        ELSE IF is_upwind_before /\ ~is_upwind_after THEN "bear_away"
        ELSE "head_up"

CategorizeCall(before_bearing, after_bearing, wind_direction) ==
    /\ last' = [op |-> "categorize", accepted |-> TRUE, ran |-> 0, outcome |-> NoFuse,
                before_bearing |-> before_bearing, after_bearing |-> after_bearing,
                wind_direction |-> wind_direction,
                returned |-> CategorizeManeuver(before_bearing, after_bearing,
                                                wind_direction)]
    /\ UNCHANGED <<wind_data_points, current_wind_field, wind_field_history,
                   last_fusion_time, produced, wind_estimates, wind_cache>>

(***************************************************************************)
(* WindEstimator.detect_maneuvers on a track given by its bearings (whole   *)
(* degrees).  Sample indices are the table's, from 0; bearings[i + 1] is    *)
(* the bearing of sample i.                                                 *)
(***************************************************************************)
min_angle_change == 30

window_size == 3

\* abs(((curr - prev + 180) % 360) - 180)
CircularChange(prev_bearing, curr_bearing) ==
    Abs(((curr_bearing - prev_bearing + 180) % 360) - 180)

\* the bearing_change column
BearingChange(bearings, i) ==
    IF i = 0 THEN 0 ELSE CircularChange(bearings[i], bearings[i + 1])

\* rolling(window=window_size, center=True) has a value where the whole window
\* lies inside the track
HasWindow(bearings, i) ==
    /\ i - (window_size \div 2) >= 0
    /\ i + ((window_size - 1) \div 2) <= Len(bearings) - 1

\* the bearing_change_sum column
BearingChangeSum(bearings, i) ==
    SumSeq([k \in 1 .. window_size |->
               BearingChange(bearings, i - (window_size \div 2) + k - 1)])

\* variant: a sum equal to the threshold marks the sample too
IsManeuver_AtThreshold(bearings, i) ==
    HasWindow(bearings, i) /\ BearingChangeSum(bearings, i) >= min_angle_change

\* the is_maneuver column
IsManeuver(bearings, i) ==
    HasWindow(bearings, i) /\ BearingChangeSum(bearings, i) > min_angle_change

\* the last sample of the maneuver group that starts at sample i
RECURSIVE GroupEnd(_, _)
GroupEnd(bearings, i) ==
    IF i + 1 <= Len(bearings) - 1 /\ IsManeuver(bearings, i + 1)
    THEN GroupEnd(bearings, i + 1) ELSE i

\* group['bearing_change'].idxmax(): the first sample with the largest change
IdxMax(bearings, from, to) ==
    CHOOSE i \in from .. to :
        /\ \A j \in from .. to : BearingChange(bearings, j) <= BearingChange(bearings, i)
        /\ \A j \in from .. (i - 1) : BearingChange(bearings, j) < BearingChange(bearings, i)

ManeuverAt(bearings, max_change_idx, wind_direction) ==
    LET before_idx == Max(0, max_change_idx - window_size)
        after_idx == Min(Len(bearings) - 1, max_change_idx + window_size)
        before_bearing == bearings[before_idx + 1]
        after_bearing == bearings[after_idx + 1]
    IN  [index |-> max_change_idx,
         maneuver_type |-> CategorizeManeuver(before_bearing, after_bearing,
                                              wind_direction),
         before_bearing |-> before_bearing,
         after_bearing |-> after_bearing]

\* the loop over the maneuver groups, from sample i on
RECURSIVE ManeuverPoints(_, _, _)
ManeuverPoints(bearings, i, wind_direction) ==
    IF i > Len(bearings) - 1 THEN << >>
    ELSE IF IsManeuver(bearings, i)
    THEN << ManeuverAt(bearings, IdxMax(bearings, i, GroupEnd(bearings, i)),
                       wind_direction) >>
         \o ManeuverPoints(bearings, GroupEnd(bearings, i) + 1, wind_direction)
    ELSE ManeuverPoints(bearings, i + 1, wind_direction)

DetectManeuvers(bearings, wind_direction) ==
    IF Len(bearings) < window_size * 2 THEN << >>
    ELSE ManeuverPoints(bearings, 0,
                        IF 0 <= wind_direction /\ wind_direction < 360
                        THEN wind_direction ELSE 0)

DetectCall(bearings, wind_direction) ==
    /\ last' = [op |-> "detect", accepted |-> TRUE, ran |-> 0, outcome |-> NoFuse,
                bearings |-> bearings, wind_direction |-> wind_direction,
                returned |-> DetectManeuvers(bearings, wind_direction)]
    /\ UNCHANGED <<wind_data_points, current_wind_field, wind_field_history,
                   last_fusion_time, produced, wind_estimates, wind_cache>>

(***************************************************************************)
(* StrategyDetector: duplicate filtering of strategy points.  A position    *)
(* is a distance in metres along a line, so that _calculate_distance is the *)
(* absolute difference; time_estimate is in seconds.                        *)
(***************************************************************************)
duplicate_distance == 500

duplicate_seconds == 300

CalculateDistance(a, b) == Abs(a - b)

\* pos_distance < 500 and time_diff < 300
IsDuplicateOf(point, existing) ==
    /\ CalculateDistance(point.position, existing.position) < duplicate_distance
    /\ Abs(point.time_estimate - existing.time_estimate) < duplicate_seconds

\* sorted(points, key=lambda p: p.time_estimate), which is stable
RECURSIVE InsertByTime(_, _)
InsertByTime(sorted, point) ==
    IF sorted = << >> THEN << point >>
    ELSE IF point.time_estimate < Head(sorted).time_estimate
    THEN << point >> \o sorted
    ELSE << Head(sorted) >> \o InsertByTime(Tail(sorted), point)

RECURSIVE SortedByTime(_)
SortedByTime(points) ==
    IF points = << >> THEN << >>
    ELSE InsertByTime(SortedByTime(SubSeq(points, 1, Len(points) - 1)),
                      points[Len(points)])

\* the first entry of filtered the point duplicates (0 when there is none)
FirstDuplicate(filtered, point) ==
    IF \E k \in 1 .. Len(filtered) : IsDuplicateOf(point, filtered[k])
    THEN CHOOSE k \in 1 .. Len(filtered) :
             /\ IsDuplicateOf(point, filtered[k])
             /\ \A j \in 1 .. (k - 1) : ~IsDuplicateOf(point, filtered[j])
    ELSE 0

\* filtered.remove(existing)
RemoveAt(seq, k) == SubSeq(seq, 1, k - 1) \o SubSeq(seq, k + 1, Len(seq))

\* variant: the entry met first is kept whatever the incoming point's score
FilterStep_KeepsFirst(filtered, point, key) ==
    IF FirstDuplicate(filtered, point) = 0 THEN Append(filtered, point) ELSE filtered

\* one round of the loop over sorted_points; key names the attribute compared
FilterStep(filtered, point, key) ==
    LET k == FirstDuplicate(filtered, point)
    IN  IF k = 0 THEN Append(filtered, point)
        ELSE IF point[key] > filtered[k][key]
        THEN Append(RemoveAt(filtered, k), point)
        ELSE filtered

RECURSIVE FilterLoop(_, _, _)
FilterLoop(filtered, sorted_points, key) ==
    IF sorted_points = << >> THEN filtered
    ELSE FilterLoop(FilterStep(filtered, Head(sorted_points), key),
                    Tail(sorted_points), key)

FilterDuplicates(points, key) ==
    IF Len(points) <= 1 THEN points
    ELSE FilterLoop(<< >>, SortedByTime(points), key)

FilterDuplicateShifts(shift_points) == FilterDuplicates(shift_points, "shift_probability")

FilterShiftsCall(shift_points) ==
    /\ last' = [op |-> "filter_shifts", accepted |-> TRUE, ran |-> 0, outcome |-> NoFuse,
                shift_points |-> shift_points,
                returned |-> FilterDuplicateShifts(shift_points)]
    /\ UNCHANGED <<wind_data_points, current_wind_field, wind_field_history,
                   last_fusion_time, produced, wind_estimates, wind_cache>>

(***************************************************************************)
(* StrategyDetector.detect_optimal_tacks on one leg: the candidates are the *)
(* optimal tacks _find_optimal_tack_position returns along the path, in     *)
(* path order; existing_tacks are the leg's tack_points.                    *)
(***************************************************************************)
existing_tack_distance == 200

FilterDuplicateTacks(tack_points) == FilterDuplicates(tack_points, "vmg_gain")

\* the check of a candidate against existing_tack_positions
NearExistingTack(optimal_tack, existing_tacks) ==
    \E k \in 1 .. Len(existing_tacks) :
        CalculateDistance(optimal_tack.position, existing_tacks[k].position)
            < existing_tack_distance

\* TackPoint(position=..., time_estimate=...) with its vmg_gain
TackPoint(optimal_tack) ==
    [position |-> optimal_tack.position, time_estimate |-> optimal_tack.time,
     vmg_gain |-> optimal_tack.vmg_gain]

\* the tack_points list built by the loop over the path
RECURSIVE CollectTacks(_, _)
CollectTacks(candidates, existing_tacks) ==
    IF candidates = << >> THEN << >>
    ELSE (IF NearExistingTack(Head(candidates), existing_tacks)
          THEN << >> ELSE << TackPoint(Head(candidates)) >>)
         \o CollectTacks(Tail(candidates), existing_tacks)

DetectOptimalTacks(candidates, existing_tacks) ==
    FilterDuplicateTacks(CollectTacks(candidates, existing_tacks))

DetectTacksCall(candidates, existing_tacks) ==
    /\ last' = [op |-> "detect_tacks", accepted |-> TRUE, ran |-> 0, outcome |-> NoFuse,
                candidates |-> candidates, existing_tacks |-> existing_tacks,
                returned |-> DetectOptimalTacks(candidates, existing_tacks)]
    /\ UNCHANGED <<wind_data_points, current_wind_field, wind_field_history,
                   last_fusion_time, produced, wind_estimates, wind_cache>>

(***************************************************************************)
(* StrategyDetector._get_wind_at_position and _extract_wind_at_point: the  *)
(* wind lookup shared by the detectors.  Positions are whole grid units,   *)
(* confidence is in 1/1000.                                                *)
(***************************************************************************)
\* wind_field.get('confidence', np.ones_like(wind_directions) * 0.8)
default_confidence == 800

\* a wind field object: id is the identity of the object, hashable tells
\* whether hash(wind_field) succeeds (it does not for a dict), complete
\* whether the four grid keys are present
WindField(id, hashable, complete, has_confidence, wind_direction, wind_speed, confidence) ==
    [id |-> id, hashable |-> hashable, complete |-> complete,
     has_confidence |-> has_confidence,
     lat_grid |-> << <<0, 0>>, <<10, 10>> >>,
     lon_grid |-> << <<0, 10>>, <<0, 10>> >>,
     wind_direction |-> wind_direction, wind_speed |-> wind_speed,
     confidence |-> confidence]

GridIndices(grid) == { <<i, j>> : i \in 1 .. Len(grid), j \in 1 .. Len(grid[1]) }

GridValues(grid) == { grid[x[1]][x[2]] : x \in GridIndices(grid) }

\* np.min(grid)
GridMin(grid) == CHOOSE v \in GridValues(grid) : \A w \in GridValues(grid) : v <= w

\* np.max(grid)
GridMax(grid) == CHOOSE v \in GridValues(grid) : \A w \in GridValues(grid) : v >= w

\* (lat_grid - lat)**2 + (lon_grid - lon)**2 at one index
SquaredDistance(wind_field, idx, lat, lon) ==
    (wind_field.lat_grid[idx[1]][idx[2]] - lat) * (wind_field.lat_grid[idx[1]][idx[2]] - lat)
    + (wind_field.lon_grid[idx[1]][idx[2]] - lon) * (wind_field.lon_grid[idx[1]][idx[2]] - lon)

\* the order of the flattened array that np.argmin scans
RowMajorBefore(a, b) == a[1] < b[1] \/ (a[1] = b[1] /\ a[2] < b[2])

\* np.unravel_index(np.argmin(distances), distances.shape): the first minimum
ClosestIdx(wind_field, lat, lon) ==
    CHOOSE idx \in GridIndices(wind_field.lat_grid) :
        \A other \in GridIndices(wind_field.lat_grid) :
            /\ SquaredDistance(wind_field, idx, lat, lon)
                   <= SquaredDistance(wind_field, other, lat, lon)
            /\ RowMajorBefore(other, idx) =>
                   SquaredDistance(wind_field, idx, lat, lon)
                       < SquaredDistance(wind_field, other, lat, lon)

OutsideGrid(wind_field, lat, lon) ==
    \/ lat < GridMin(wind_field.lat_grid) \/ lat > GridMax(wind_field.lat_grid)
    \/ lon < GridMin(wind_field.lon_grid) \/ lon > GridMax(wind_field.lon_grid)

\* _extract_wind_at_point; the variability entry of the returned dict, which
\* is derived from the same arrays and feeds none of the other entries, is
\* left out
ExtractWindAtPoint(lat, lon, wind_field) ==
    IF ~wind_field.complete THEN None        \* KeyError caught: warning, None
    ELSE IF OutsideGrid(wind_field, lat, lon) THEN None
    ELSE LET closest_idx == ClosestIdx(wind_field, lat, lon)
         IN  [direction |-> wind_field.wind_direction[closest_idx[1]][closest_idx[2]],
              speed |-> wind_field.wind_speed[closest_idx[1]][closest_idx[2]],
              confidence |-> IF wind_field.has_confidence
                             THEN wind_field.confidence[closest_idx[1]][closest_idx[2]]
                             ELSE default_confidence]

\* the field an injected interpolator hands back for a target time
interpolated_field ==
    WindField(0, FALSE, TRUE, TRUE,
              << <<90, 90>>, <<90, 90>> >>, << <<4, 4>>, <<4, 4>> >>,
              << <<600, 600>>, <<600, 600>> >>)

\* the body of _get_wind_at_position; interpolator is "none" when no
\* interpolator is injected, otherwise what interpolate_wind_field does
WindAtPosition(lat, lon, time_point, wind_field, interpolator) ==
    IF interpolator = "field" /\ time_point # None
    THEN ExtractWindAtPoint(lat, lon, interpolated_field)
    ELSE ExtractWindAtPoint(lat, lon, wind_field)

\* the key lru_cache builds from the call's arguments; an object without
\* __eq__ and __hash__ of its own is keyed by its identity
CacheKey(lat, lon, time_point, wind_field) == <<lat, lon, time_point, wind_field.id>>

\* @lru_cache(maxsize=128) around the body: hashing the arguments comes first
GetWindAtPosition(lat, lon, time_point, wind_field, interpolator) ==
    LET key == CacheKey(lat, lon, time_point, wind_field)
        call == [op |-> "get_wind", accepted |-> TRUE, ran |-> 0, outcome |-> NoFuse,
                 lat |-> lat, lon |-> lon, time_point |-> time_point,
                 wind_field |-> wind_field, interpolator |-> interpolator]
    IN  /\ IF ~wind_field.hashable
           THEN \* TypeError: unhashable type
                /\ last' = [call EXCEPT !.accepted = FALSE] @@
                           [raised |-> TRUE, hit |-> FALSE, returned |-> None]
                /\ UNCHANGED wind_cache
           ELSE IF key \in DOMAIN wind_cache
           THEN /\ last' = call @@
                           [raised |-> FALSE, hit |-> TRUE, returned |-> wind_cache[key]]
                /\ UNCHANGED wind_cache
           ELSE LET result == WindAtPosition(lat, lon, time_point, wind_field, interpolator)
                IN  /\ last' = call @@
                               [raised |-> FALSE, hit |-> FALSE, returned |-> result]
                    /\ wind_cache' = Put(wind_cache, key, result)
        /\ UNCHANGED <<wind_data_points, current_wind_field, wind_field_history,
                       last_fusion_time, produced, wind_estimates>>

(***************************************************************************)
(* StrategyDetector._angle_difference                                      *)
(***************************************************************************)
\* variant: the half turn is folded to the upper end of the interval
AngleDifference_UpperEnd(angle1, angle2) == 180 - ((angle2 - angle1 + 180) % 360)

\* variant: the difference is only normalised, not re-centred
AngleDifference_Unsigned(angle1, angle2) == (angle1 - angle2) % 360

\* ((angle1 - angle2 + 180) % 360) - 180; Python's % takes the sign of the
\* divisor, as the % of the integers does here
AngleDifference(angle1, angle2) == ((angle1 - angle2 + 180) % 360) - 180

AngleDifferenceCall(angle1, angle2) ==
    /\ last' = [op |-> "angle_difference", accepted |-> TRUE, ran |-> 0, outcome |-> NoFuse,
                angle1 |-> angle1, angle2 |-> angle2,
                returned |-> AngleDifference(angle1, angle2)]
    /\ UNCHANGED <<wind_data_points, current_wind_field, wind_field_history,
                   last_fusion_time, produced, wind_estimates, wind_cache>>

(***************************************************************************)
(* strategy_detector_utils: determine_tack_type and                        *)
(* estimate_wind_direction_from_tack.  Angles are whole degrees; the       *)
(* estimated wind direction is kept in half degrees because of the mean.   *)
(***************************************************************************)
\* the wind directions listed as 'starboard' for a bearing of the table
StarboardTable(bearing) ==
    IF bearing = 0 THEN {0, 45, 90, 135, 180}
    ELSE IF bearing = 45 THEN {45, 90, 135, 180, 225}
    ELSE IF bearing = 90 THEN {135, 180, 225, 270}
    ELSE IF bearing = 135 THEN {135, 180, 225, 270, 315}
    ELSE IF bearing = 180 THEN {180, 225, 270, 315, 0}
    ELSE IF bearing = 225 THEN {225, 270, 315, 0, 45}
    ELSE IF bearing = 270 THEN {270, 315, 0, 45, 90}
    ELSE {315, 0, 45, 90, 135}

DetermineTackType(bearing, wind_direction) ==
    LET b == bearing % 360
        w == wind_direction % 360
        wind_offset == (w - b) % 360
    IN  IF b \in {0, 45, 90, 135, 180, 225, 270, 315}
        THEN IF w \in StarboardTable(b) THEN "starboard" ELSE "port"
        \* the branch for bearing == 360 cannot be taken after the % 360
        ELSE IF 0 <= wind_offset /\ wind_offset <= 180 THEN "starboard" ELSE "port"

DetermineTackTypeCall(bearing, wind_direction) ==
    /\ last' = [op |-> "determine_tack_type", accepted |-> TRUE, ran |-> 0,
                outcome |-> NoFuse,
                bearing |-> bearing, wind_direction |-> wind_direction,
                returned |-> DetermineTackType(bearing, wind_direction)]
    /\ UNCHANGED <<wind_data_points, current_wind_field, wind_field_history,
                   last_fusion_time, produced, wind_estimates, wind_cache>>

\* ((heading_before + heading_after) / 2 + 90) % 360, in half degrees
EstimateWindDirectionFromTack(heading_before, heading_after) ==
    (heading_before + heading_after + 180) % 720

EstimateWindDirectionFromTackCall(heading_before, heading_after) ==
    /\ last' = [op |-> "estimate_wind_direction_from_tack", accepted |-> TRUE, ran |-> 0,
                outcome |-> NoFuse,
                heading_before |-> heading_before, heading_after |-> heading_after,
                returned |-> EstimateWindDirectionFromTack(heading_before, heading_after)]
    /\ UNCHANGED <<wind_data_points, current_wind_field, wind_field_history,
                   last_fusion_time, produced, wind_estimates, wind_cache>>

(***************************************************************************)
(* WindEstimator._estimate_from_speed_patterns and _estimate_using_polar,   *)
(* from the cluster statistics on: K-means itself is outside the code, its  *)
(* clusters are inputs.  Speeds and confidences are in 1/1000.              *)
(***************************************************************************)
Cluster(mean_bearing, mean_speed) ==
    [mean_bearing |-> mean_bearing, mean_speed |-> mean_speed]

\* max(cluster_stats, key=mean_speed): the first of the fastest
MaxSpeedCluster(cluster_stats) ==
    cluster_stats[CHOOSE k \in 1 .. Len(cluster_stats) :
        /\ \A j \in 1 .. Len(cluster_stats) :
               cluster_stats[j].mean_speed <= cluster_stats[k].mean_speed
        /\ \A j \in 1 .. (k - 1) :
               cluster_stats[j].mean_speed < cluster_stats[k].mean_speed]

\* min(cluster_stats, key=mean_speed): the first of the slowest; also the head
\* of the stable sort by speed
MinSpeedCluster(cluster_stats) ==
    cluster_stats[CHOOSE k \in 1 .. Len(cluster_stats) :
        /\ \A j \in 1 .. Len(cluster_stats) :
               cluster_stats[j].mean_speed >= cluster_stats[k].mean_speed
        /\ \A j \in 1 .. (k - 1) :
               cluster_stats[j].mean_speed > cluster_stats[k].mean_speed]

\* the tail of the stable sort by speed: the last of the fastest
LastMaxSpeedCluster(cluster_data) ==
    cluster_data[CHOOSE k \in 1 .. Len(cluster_data) :
        /\ \A j \in 1 .. Len(cluster_data) :
               cluster_data[j].mean_speed <= cluster_data[k].mean_speed
        /\ \A j \in (k + 1) .. Len(cluster_data) :
               cluster_data[j].mean_speed < cluster_data[k].mean_speed]

\* max_speed > min_speed * 1.2
HasSpeedContrast(cluster_stats) ==
    MaxSpeedCluster(cluster_stats).mean_speed * 10
        > MinSpeedCluster(cluster_stats).mean_speed * 12

\* wind_direction = upwind_bearing
SpeedPatternDirection(upwind_bearing) == upwind_bearing

\* _estimate_from_speed_patterns for len(df) rows of which valid pass the speed
\* threshold; mean_bearing is the circular mean of the valid bearings and
\* fastest_mean_bearing that of the five fastest rows
EstimateFromSpeedPatterns(rows, valid, cluster_stats, mean_bearing, fastest_mean_bearing) ==
    IF rows < 10 \/ valid = 0 THEN <<0, 100>>
    ELSE IF valid < 10 THEN << (mean_bearing + 180) % 360, 300 >>
    ELSE IF HasSpeedContrast(cluster_stats)
    THEN LET downwind_bearing == MaxSpeedCluster(cluster_stats).mean_bearing
             upwind_bearing == MinSpeedCluster(cluster_stats).mean_bearing
             angle_diff == Abs(((downwind_bearing - upwind_bearing + 180) % 360) - 180)
         IN  << SpeedPatternDirection(upwind_bearing),
                Max(300, Min(900, (angle_diff * 1000) \div 180)) >>
    ELSE << (fastest_mean_bearing + 180) % 360, 400 >>

\* abs(((a - b) + 180) % 360 - 180)
AngleGap(a, b) == Abs(((a - b + 180) % 360) - 180)

\* the nearest of the expected direction and its two neighbours at +-spread
ClusterMatch(bearing, direction, spread) ==
    Min(AngleGap(bearing, direction),
        Min(AngleGap(bearing, direction + spread), AngleGap(bearing, direction - spread)))

\* wind_direction = (upwind_bearing + 180) % 360
PolarDirection(upwind_bearing) == (upwind_bearing + 180) % 360

\* _estimate_using_polar for valid rows with bearing and speed, from the
\* clusters of the 10-degree bins on; the VMG angles are those of the boat type
EstimateUsingPolar(valid, cluster_data, upwind_vmg_angle, downwind_vmg_angle) ==
    IF valid < 10 \/ Len(cluster_data) < 2 THEN <<0, 300>>
    ELSE LET upwind_cluster == MinSpeedCluster(cluster_data)
             downwind_cluster == LastMaxSpeedCluster(cluster_data)
             wind_direction == PolarDirection(upwind_cluster.mean_bearing)
             downwind_diff == AngleGap(downwind_cluster.mean_bearing, wind_direction)
             speed_diff == downwind_cluster.mean_speed - upwind_cluster.mean_speed
             speed_clarity == Min(1000, (speed_diff * 1000) \div 300)
             direction_agreement == Max(0, 1000 - (downwind_diff * 1000) \div 90)
             confidence == 500 + speed_clarity \div 4 + direction_agreement \div 4
             upwind_direction == (wind_direction + upwind_vmg_angle) % 360
             downwind_direction == (wind_direction + 180 - downwind_vmg_angle) % 360
             upwind_match == ClusterMatch(upwind_cluster.mean_bearing, upwind_direction, 60)
             downwind_match ==
                 ClusterMatch(downwind_cluster.mean_bearing, downwind_direction, 30)
             polar_match == 1000 - Min(1000, ((upwind_match + downwind_match) * 1000) \div 90)
         IN  << wind_direction, (7 * confidence + 3 * polar_match) \div 10 >>

\* the first two sub-estimates estimate_wind_direction_hybrid collects
SubEstimatorsCall(rows, valid, cluster_stats, cluster_data, mean_bearing) ==
    /\ last' = [op |-> "sub_estimators", accepted |-> TRUE, ran |-> 0, outcome |-> NoFuse,
                rows |-> rows, valid |-> valid,
                cluster_stats |-> cluster_stats, cluster_data |-> cluster_data,
                speed_patterns |-> EstimateFromSpeedPatterns(rows, valid, cluster_stats,
                                                             mean_bearing, mean_bearing),
                polar_data |-> EstimateUsingPolar(rows, cluster_data, 45, 150)]
    /\ UNCHANGED <<wind_data_points, current_wind_field, wind_field_history,
                   last_fusion_time, produced, wind_estimates, wind_cache>>

(***************************************************************************)
(* StrategyDetector._calculate_layline with _calculate_layline_safety_margin*)
(* and _get_optimal_tacking_angle for the boat type 'default'.  Bearings,   *)
(* tacking angles and margins are in 1/100 degree, wind directions in whole *)
(* degrees, factors in 1/1000, distances in metres.                         *)
(***************************************************************************)
\* _angle_difference on angles in 1/100 degree
CentiAngleDifference(angle1, angle2) == ((angle1 - angle2 + 18000) % 36000) - 18000

\* _estimate_traffic_factor; random_factor is random.uniform(0.8, 1.2)
EstimateTrafficFactor(mark_distance, random_factor) ==
    LET base_factor == Max(100, Min(900, 500000 \div Max(1, mark_distance)))
    IN  Min(1000, Max(0, (base_factor * random_factor) \div 1000))

\* the product of the factors, before it is limited
RawSafetyMargin(wind_info, distance_to_mark, wind_shift, random_factor) ==
    LET base_margin == 500
        variability_factor == 1000 + wind_info.variability * 15
        speed_factor == 1000 + Max(0, (15 - wind_info.speed) * 100)
        confidence_factor == 1000 + (1000 - wind_info.confidence) * 2
        distance_factor == Min(1500, Max(800, distance_to_mark * 2))
        shift_factor == 1000 + (Abs(wind_shift) * 1000) \div 45
        traffic_factor ==
            1000 + EstimateTrafficFactor(distance_to_mark, random_factor) \div 2
    IN  ((((((((((((base_margin * variability_factor) \div 1000)
                  * speed_factor) \div 1000)
                * confidence_factor) \div 1000)
              * distance_factor) \div 1000)
            * shift_factor) \div 1000)
          * traffic_factor) \div 1000)

\* variant: the margin is limited from below only
LaylineSafetyMargin_Uncapped(wind_info, distance_to_mark, wind_shift, random_factor) ==
    Max(300, RawSafetyMargin(wind_info, distance_to_mark, wind_shift, random_factor))

\* min(25.0, max(3.0, margin))
LaylineSafetyMargin(wind_info, distance_to_mark, wind_shift, random_factor) ==
    Min(2500, Max(300, RawSafetyMargin(wind_info, distance_to_mark, wind_shift,
                                       random_factor)))

\* _get_optimal_tacking_angle(wind_speed, 'default')
OptimalTackingAngle(wind_speed) ==
    IF wind_speed < 5 THEN 9000 + 1000
    ELSE IF wind_speed > 15 THEN 9000 - 500
    ELSE 9000 + 1000 - (wind_speed - 5) * 150

WindInfo(direction, speed, confidence, variability) ==
    [direction |-> direction, speed |-> speed, confidence |-> confidence,
     variability |-> variability]

\* _calculate_layline: vmg_info is what the VMG calculator answers ("absent"
\* when no calculator is set, "none" for a falsy answer), lookup what
\* _get_wind_at_position gives for the mark at the arrival time, bearing_to_mark
\* and distance_to_mark the bearing and the distance from position to mark_pos
CalculateLayline(vmg_info, lookup, current_wind, bearing_to_mark, distance_to_mark, random_factor) ==
    IF vmg_info \in {"absent", "none"} THEN None
    ELSE IF lookup.raised THEN Raise
    ELSE LET arrival_wind == IF lookup.found THEN lookup.wind ELSE current_wind
             wind_shift == AngleDifference(arrival_wind.direction, current_wind.direction)
             safety_margin == LaylineSafetyMargin(current_wind, distance_to_mark,
                                                  wind_shift, random_factor)
             tacking_angle == OptimalTackingAngle(current_wind.speed)
             wind_direction == current_wind.direction * 100
             port_layline ==
                 (wind_direction - tacking_angle \div 2 + safety_margin) % 36000
             starboard_layline ==
                 (wind_direction + tacking_angle \div 2 - safety_margin) % 36000
             port_angle_diff == Abs(CentiAngleDifference(bearing_to_mark, port_layline))
             starboard_angle_diff ==
                 Abs(CentiAngleDifference(bearing_to_mark, starboard_layline))
         IN  [port_layline |-> port_layline,
              starboard_layline |-> starboard_layline,
              on_port_layline |-> 2 * port_angle_diff < safety_margin,
              on_starboard_layline |-> 2 * starboard_angle_diff < safety_margin,
              tacking_angle |-> tacking_angle,
              safety_margin |-> safety_margin,
              wind_shift |-> wind_shift]

CalculateLaylineCall(vmg_info, lookup, current_wind, bearing_to_mark, distance_to_mark, random_factor) ==
    /\ last' = [op |-> "calculate_layline", accepted |-> TRUE, ran |-> 0,
                outcome |-> NoFuse,
                vmg_info |-> vmg_info, lookup |-> lookup, current_wind |-> current_wind,
                bearing_to_mark |-> bearing_to_mark,
                distance_to_mark |-> distance_to_mark,
                returned |-> CalculateLayline(vmg_info, lookup, current_wind,
                                              bearing_to_mark, distance_to_mark,
                                              random_factor)]
    /\ UNCHANGED <<wind_data_points, current_wind_field, wind_field_history,
                   last_fusion_time, produced, wind_estimates, wind_cache>>

Init ==
    /\ wind_data_points = <<>>
    /\ current_wind_field = None
    /\ wind_field_history = <<>>
    /\ last_fusion_time = None
    /\ produced = 0
    /\ wind_estimates = EmptyMap
    /\ wind_cache = EmptyMap
    /\ last = [op |-> "init", accepted |-> TRUE, ran |-> 0, outcome |-> NoFuse]

DefaultOutcome == [idw |-> "field", nearest |-> "not_tried"]

\* the interpolator's outcome matters only when the call reaches fuse_wind_data
Outcomes(points) == IF points = <<>> THEN {DefaultOutcome} ELSE FuseOutcomes

AddOutcomes(p) ==
    IF AddRejected(p) \/ ~TriggersFusion(Append(wind_data_points, Coerced(p)))
    THEN {DefaultOutcome} ELSE FuseOutcomes

\* streaming use: observations arrive one at a time
Next ==
    /\ \/ \E p \in AddInputs : \E o \in AddOutcomes(p) : AddWindDataPoint(p, o)
       \/ \E o \in Outcomes(wind_data_points) : FuseCall(o)
    /\ Len(wind_data_points') <= MaxPoints
    /\ produced' <= MaxProduced
    /\ UNCHANGED <<wind_estimates, wind_cache>>

Spec == Init /\ [][Next]_vars

\* batch use: whole tables of estimates replace the buffer
NextBatch ==
    /\ \/ \E p \in AddInputs : \E o \in AddOutcomes(p) : AddWindDataPoint(p, o)
       \/ \E b \in BoatsDataInputs : \E o \in Outcomes(BoatPoints(b)) :
              UpdateWithBoatData(b, o)
       \/ \E o \in Outcomes(wind_data_points) : FuseCall(o)
    /\ Len(wind_data_points') <= MaxBatchPoints
    /\ produced' <= MaxProduced
    /\ UNCHANGED <<wind_estimates, wind_cache>>

SpecBatch == Init /\ [][NextBatch]_vars

\* long runs: enough fusions to fill the history and evict from it
LongAddInputs ==
    {FullPoint(Datetime(0)), Without(FullPoint(Datetime(0)), "wind_speed")}

LongBoatsDataInputs == { <<>>, << Boat("A", [columns |-> required_columns,
                                              rows |-> << Row(0, 10) >>]) >> }

NextLong ==
    /\ \/ \E p \in LongAddInputs : \E o \in AddOutcomes(p) : AddWindDataPoint(p, o)
       \/ \E b \in LongBoatsDataInputs : \E o \in Outcomes(BoatPoints(b)) :
              UpdateWithBoatData(b, o)
       \/ \E o \in Outcomes(wind_data_points) : FuseCall(o)
    /\ Len(wind_data_points') <= MaxPoints
    /\ produced' <= MaxProducedLong
    /\ UNCHANGED <<wind_estimates, wind_cache>>

SpecLong == Init /\ [][NextLong]_vars

\* prediction use: a fused field, then forecasts at several horizons and sizes
TargetTimes == {Datetime(1500), Datetime(2101), Datetime(2102)}

GridResolutions == {1, 10, 20, 200}

PredictBoatsDataInputs == { << Boat("A", OneRowTable) >> }

NextPredict ==
    /\ \/ \E b \in PredictBoatsDataInputs : \E o \in Outcomes(BoatPoints(b)) :
              UpdateWithBoatData(b, o)
       \/ \E t \in TargetTimes : \E r \in GridResolutions :
              \E c \in PredictCalls(t, r) : PredictWindField(t, r, c)
    /\ produced' <= MaxProduced
    /\ UNCHANGED <<wind_estimates, wind_cache>>

SpecPredict == Init /\ [][NextPredict]_vars

\* estimator use: single tracks and batches of boats on one WindEstimator
SingleInputs ==
    { Track(n, "datetime64", d, TRUE, TRUE, TRUE, "A") :
          n \in {19, 20, 40, 41}, d \in {59, 60} }
    \cup { Track(41, "objects", 59, TRUE, TRUE, FALSE, ""),
           Track(19, "absent", 0, TRUE, TRUE, TRUE, "A"),
           Track(20, "absent", 0, TRUE, TRUE, TRUE, "B"),
           Track(20, "text", 0, TRUE, TRUE, TRUE, "A"),
           Track(41, "datetime64", 300, FALSE, TRUE, TRUE, "A"),
           Track(41, "datetime64", 300, TRUE, FALSE, TRUE, "A") }

GoodTrack(boat_id) == Track(100, "datetime64", 495, TRUE, TRUE, TRUE, boat_id)

ShortTrack(boat_id) == Track(19, "datetime64", 90, TRUE, TRUE, TRUE, boat_id)

BoatTrack(key, gps_data) == [key |-> key, gps_data |-> gps_data]

MultipleInputs ==
    { <<>>,
      << BoatTrack("K1", GoodTrack("A")), BoatTrack("B", GoodTrack("B")) >>,
      << BoatTrack("K1", ShortTrack("K1")), BoatTrack("B", GoodTrack("B")) >>,
      << BoatTrack("A", GoodTrack("B")),
         BoatTrack("B", Track(41, "datetime64", 59, TRUE, TRUE, TRUE, "B")) >>,
      << BoatTrack("K1", Track(20, "text", 0, TRUE, TRUE, TRUE, "K1")),
         BoatTrack("B", GoodTrack("B")) >> }

NextEstimator ==
    /\ \/ \E g \in SingleInputs : EstimateWindFromSingleBoat(g)
       \/ \E b \in MultipleInputs : EstimateWindFromMultipleBoats(b)
    /\ Cardinality(DOMAIN wind_estimates') <= MaxEstimates
    /\ UNCHANGED wind_cache

SpecEstimator == Init /\ [][NextEstimator]_vars

\* the hybrid direction estimate over sub-estimator reports
SubEstimates == { <<d, c>> : d \in {10, 200, 350}, c \in {400, 800} } \cup { <<0, 0>> }

DataQualities == {500, 1000}

NextHybrid ==
    /\ last.op = "init"
    /\ \E n \in {9, 10} : \E sp \in SubEstimates : \E po \in SubEstimates :
           \E vm \in SubEstimates : \E q \in DataQualities :
               HybridCall(n, sp, po, vm, q)

SpecHybrid == Init /\ [][NextHybrid]_vars

\* the window loop over track lengths and hybrid confidences
TrackLengths == (20 .. 50) \cup {100, 400}

ConfidenceScores == {100, 400, 700, 1000}

NextWindows ==
    /\ last.op = "init"
    /\ \E n \in TrackLengths : \E c \in ConfidenceScores : \E b \in BOOLEAN :
           WindowLoop(n, c, b)

SpecWindows == Init /\ [][NextWindows]_vars

\* the maneuver classifier over bearings every 15 degrees and a few in between
Bearings == { 15 * k : k \in 0 .. 24 } \cup {44, 46, 89, 91, 119, 121, 269, 271}

WindDirections == {0, 90, 350}

NextCategorize ==
    /\ last.op = "init"
    /\ \E b \in Bearings : \E a \in Bearings : \E w \in WindDirections :
           CategorizeCall(b, a, w)

SpecCategorize == Init /\ [][NextCategorize]_vars

\* maneuver detection over short tracks
TrackBearings == {0, 40, 350}

MinTrackLen == 5

Tracks == UNION { [1 .. n -> TrackBearings] : n \in MinTrackLen .. MaxTrackLen }

NextDetect ==
    /\ last.op = "init"
    /\ \E b \in Tracks : \E w \in {0, 360} : DetectCall(b, w)

SpecDetect == Init /\ [][NextDetect]_vars

\* duplicate filtering of wind-shift points
ShiftPoint(position, time_estimate, shift_probability) ==
    [position |-> position, time_estimate |-> time_estimate,
     shift_probability |-> shift_probability]

ShiftPoints ==
    { ShiftPoint(x, t, q) : x \in {0, 300, 600}, t \in {0, 200}, q \in {1, 2} }

ShiftLists == UNION { [1 .. n -> ShiftPoints] : n \in 0 .. MaxShiftPoints }

NextShifts ==
    /\ last.op = "init"
    /\ \E l \in ShiftLists : FilterShiftsCall(l)

SpecShifts == Init /\ [][NextShifts]_vars

\* optimal-tack detection over candidate lists
OptimalTack(position, time, vmg_gain) ==
    [position |-> position, time |-> time, vmg_gain |-> vmg_gain]

OptimalTacks ==
    { OptimalTack(x, t, g) : x \in {100, 400, 900}, t \in {0, 200, 1000}, g \in {1, 2} }

CandidateLists == UNION { [1 .. n -> OptimalTacks] : n \in 0 .. MaxCandidates }

ExistingTackLists == { << >>, << [position |-> 0, time |-> 0] >> }

NextTacks ==
    /\ last.op = "init"
    /\ \E c \in CandidateLists : \E e \in ExistingTackLists : DetectTacksCall(c, e)

SpecTacks == Init /\ [][NextTacks]_vars

\* wind lookups over two field contents held by dicts and by hashable objects
FieldContents ==
    { [complete |-> TRUE, has_confidence |-> TRUE,
       wind_direction |-> << <<10, 20>>, <<30, 40>> >>,
       wind_speed |-> << <<5, 6>>, <<7, 8>> >>,
       confidence |-> << <<900, 700>>, <<500, 300>> >>],
      [complete |-> TRUE, has_confidence |-> FALSE,
       wind_direction |-> << <<190, 200>>, <<210, 220>> >>,
       wind_speed |-> << <<9, 9>>, <<9, 9>> >>,
       confidence |-> << <<0, 0>>, <<0, 0>> >>],
      [complete |-> FALSE, has_confidence |-> FALSE,
       wind_direction |-> << <<10, 20>>, <<30, 40>> >>,
       wind_speed |-> << <<0, 0>>, <<0, 0>> >>,
       confidence |-> << <<0, 0>>, <<0, 0>> >>] }

WindFields ==
    { WindField(1, h, c.complete, c.has_confidence, c.wind_direction, c.wind_speed,
                c.confidence) : h \in BOOLEAN, c \in FieldContents }

LookupPositions == { <<-5, 2>>, <<2, 2>>, <<5, 8>> }

TimePoints == { None, Datetime(0) }

Interpolators == { "none", "field", "raise" }

NextWind ==
    /\ \E pos \in LookupPositions : \E t \in TimePoints :
       \E f \in WindFields : \E i \in Interpolators :
           GetWindAtPosition(pos[1], pos[2], t, f, i)
    /\ Cardinality(DOMAIN wind_cache') <= MaxCached

SpecWind == Init /\ [][NextWind]_vars

\* angle differences over headings in steps of 15 degrees, normalised or not
Angles == { 15 * k : k \in -12 .. 36 }

NextAngle ==
    /\ last.op = "init"
    /\ \E a \in Angles : \E b \in Angles : AngleDifferenceCall(a, b)

SpecAngle == Init /\ [][NextAngle]_vars

\* replayed batches: tables whose newest row is older than an earlier batch's
EarlyTable == [columns |-> required_columns, rows |-> << Row(0, 10) >>]

ReplayBoatsDataInputs ==
    { <<>>,
      << Boat("A", MissingColumnTable), Boat("B", EmptyTable) >>,
      << Boat("A", OneRowTable) >>,
      << Boat("A", EarlyTable) >> }

NextReplay ==
    /\ \/ \E p \in LongAddInputs : \E o \in AddOutcomes(p) : AddWindDataPoint(p, o)
       \/ \E b \in ReplayBoatsDataInputs : \E o \in Outcomes(BoatPoints(b)) :
              UpdateWithBoatData(b, o)
    /\ Len(wind_data_points') <= MaxPoints
    /\ produced' <= MaxProduced
    /\ UNCHANGED <<wind_estimates, wind_cache>>

SpecReplay == Init /\ [][NextReplay]_vars

\* a whole session: observations, batches, direct fusions and forecasts
SessionTargetTimes == {Datetime(1500), Datetime(2102)}

NextSession ==
    /\ \/ \E p \in LongAddInputs : \E o \in AddOutcomes(p) : AddWindDataPoint(p, o)
       \/ \E b \in ReplayBoatsDataInputs : \E o \in Outcomes(BoatPoints(b)) :
              UpdateWithBoatData(b, o)
       \/ \E o \in Outcomes(wind_data_points) : FuseCall(o)
       \/ \E t \in SessionTargetTimes : \E c \in PredictCalls(t, grid_density) :
              PredictWindField(t, grid_density, c)
    /\ Len(wind_data_points') <= MaxPoints
    /\ produced' <= MaxProduced
    /\ UNCHANGED <<wind_estimates, wind_cache>>

SpecSession == Init /\ [][NextSession]_vars

\* the utility functions over headings in steps of 5 degrees
Headings == { 5 * k : k \in 0 .. 72 }

TackBearings == { 15 * k : k \in -3 .. 27 }

NextUtils ==
    /\ last.op = "init"
    /\ \/ \E b \in TackBearings : \E w \in TackBearings : DetermineTackTypeCall(b, w)
       \/ \E b \in Headings : \E a \in Headings :
              EstimateWindDirectionFromTackCall(b, a)

SpecUtils == Init /\ [][NextUtils]_vars

\* sub-estimators over one or two bearing clusters
Clusters == { Cluster(b, v) : b \in {0, 40, 180, 220}, v \in {500, 900} }

ClusterLists == { << c >> : c \in Clusters } \cup (Clusters \X Clusters)

NextSubEstimators ==
    /\ last.op = "init"
    /\ \E n \in {9, 30} : \E v \in {0, 5, 30} : \E s \in ClusterLists :
       \E p \in ClusterLists : \E m \in {90} :
           v <= n /\ SubEstimatorsCall(n, v, s, p, m)

SpecSubEstimators == Init /\ [][NextSubEstimators]_vars

\* laylines for marks all around the boat, in light to strong and steady to
\* shifty wind
CurrentWinds ==
    { WindInfo(d, s, c, v) : d \in {0, 350}, s \in {3, 10, 15, 20},
                             c \in {300, 800}, v \in {0, 200, 500} }

Lookups ==
    { [raised |-> TRUE, found |-> FALSE, wind |-> None],
      [raised |-> FALSE, found |-> FALSE, wind |-> None] }
    \cup { [raised |-> FALSE, found |-> TRUE, wind |-> WindInfo(d, 10, 800, 200)] :
               d \in {0, 45} }

BearingsToMark == { 250 * k : k \in 0 .. 143 }

NextLayline ==
    /\ last.op = "init"
    /\ \E v \in {"absent", "none", "info"} : \E l \in Lookups : \E w \in CurrentWinds :
       \E b \in BearingsToMark : \E d \in {100, 1000} : \E r \in {800, 1200} :
           CalculateLaylineCall(v, l, w, b, d, r)

SpecLayline == Init /\ [][NextLayline]_vars

(***************************************************************************)
(* Claims about WindFieldFusionSystem                                       *)
(***************************************************************************)
\* C1: wind_field_history never holds more than max_history_size snapshots;
\* once more than max_history_size fields have been produced it holds exactly
\* that many, the most recently produced ones, oldest first.
C1_HistoryBoundedFifo ==
    /\ Len(wind_field_history) <= 10
    /\ Len(wind_field_history) = Min(produced, 10)
    /\ \A k \in 1..Len(wind_field_history) :
           wind_field_history[k].field.id = produced - Len(wind_field_history) + k

C1_Witness ==
    /\ produced > 11
    /\ Len(wind_field_history) = 10
    /\ wind_field_history[1].field.id = produced - 9
    /\ last.op = "add"

\* C2 (as claimed): after fuse_wind_data has run, wind_data_points holds no
\* observation more than 1800 s older than the latest timestamp in the list.
C2_NoStalePoints ==
    last.ran = 1 =>
        \A k \in 1..Len(wind_data_points) :
            \A m \in 1..Len(wind_data_points) :
                wind_data_points[m].timestamp.sec - wind_data_points[k].timestamp.sec
                    <= 1800

\* C3 (as claimed): after fuse_wind_data on a non-empty buffer the field is None
\* only if IDW produced no field and nearest was then tried and failed too.
C3_NoneOnlyAfterNearestFailed ==
    (last.ran = 1 /\ current_wind_field = None) =>
        /\ last.outcome.idw # "field"
        /\ last.outcome.nearest \in {"none", "raise"}

\* C4: after update_with_boat_data the buffer holds exactly one observation per
\* row of each usable table (non-empty, all required columns), in order, with
\* the speed converted from knots to m/s and the boat id attached, and nothing
\* else; unusable tables contribute nothing.
UsableRows(boats_data) ==
    { br \in (1..Len(boats_data)) \X (1..2) :
        /\ boats_data[br[1]].table.rows # <<>>
        /\ \A c \in {"timestamp", "latitude", "longitude", "wind_direction",
                     "wind_speed_knots"} : c \in boats_data[br[1]].table.columns
        /\ br[2] <= Len(boats_data[br[1]].table.rows) }

RowPosition(boats_data, br) ==
    Cardinality({ x \in UsableRows(boats_data) : x[1] < br[1] }) + br[2]

C4_UpdateReplacesBuffer ==
    last.op = "update" =>
        /\ Len(wind_data_points) = Cardinality(UsableRows(last.boats_data))
        /\ \A br \in UsableRows(last.boats_data) :
             LET row == last.boats_data[br[1]].table.rows[br[2]]
                 pt == wind_data_points[RowPosition(last.boats_data, br)]
             IN  /\ pt.timestamp = row.timestamp
                 /\ pt.latitude = row.latitude
                 /\ pt.longitude = row.longitude
                 /\ pt.wind_direction = row.wind_direction
                 /\ pt.wind_speed = row.wind_speed_knots * 51444
                 /\ pt.boat_id = last.boats_data[br[1]].boat_id

C4_Witness ==
    /\ last.op = "update"
    /\ last.before > 0
    /\ Len(last.boats_data) = 2
    /\ Cardinality(UsableRows(last.boats_data)) = 2
    /\ Len(wind_data_points) = 2

\* C5: a fresh system has no field, no history and no fusion time; a call of
\* add_wind_data_point runs fuse_wind_data exactly once when it is accepted and
\* brings the buffer to 5 points or more, and otherwise runs no fusion and
\* leaves the field, the history and the fusion time as they were.
C5_FusionFromFifthPoint ==
    /\ (current_wind_field = None /\ wind_field_history = <<>>
        /\ last_fusion_time = None /\ wind_data_points = <<>>)
    /\ [][ last'.op = "add" =>
             /\ last'.ran = IF last'.accepted /\ Len(wind_data_points') >= 5
                            THEN 1 ELSE 0
             /\ last'.ran = 0 =>
                    UNCHANGED <<current_wind_field, wind_field_history,
                                last_fusion_time>>
             /\ last'.ran = 1 => last_fusion_time' # None ]_vars

C5_Witness ==
    /\ last.op = "add"
    /\ last.accepted
    /\ last.ran = 1
    /\ Len(wind_data_points) = 6
    /\ \A k \in 1..6 : "boat_id" \notin DOMAIN wind_data_points[k]

\* C6: add_wind_data_point rejects a point that lacks a required key or whose
\* non-datetime timestamp cannot be converted: nothing changes and no fusion runs.
C6_RejectedAddChangesNothing ==
    [][ (/\ last'.op = "add"
         /\ \/ \E k \in {"timestamp", "latitude", "longitude", "wind_direction",
                         "wind_speed"} : k \notin DOMAIN last'.data_point
            \/ last'.data_point.timestamp.tag \notin {"datetime", "number"})
        => /\ ~last'.accepted
           /\ last'.ran = 0
           /\ UNCHANGED <<wind_data_points, current_wind_field, wind_field_history,
                          last_fusion_time>> ]_vars

C6_Witness ==
    /\ last.op = "add"
    /\ ~last.accepted
    /\ "wind_speed" \notin DOMAIN last.data_point
    /\ current_wind_field # None
    /\ Len(wind_data_points) >= 5

\* the index pairs of a grid
Cells(g) == (0 .. g.shape[1] - 1) \X (0 .. g.shape[2] - 1)

IsFarPredict ==
    /\ last.op = "predict"
    /\ current_wind_field # None
    /\ Abs(TotalSeconds(last.target_time, last_fusion_time)) > 300

\* C7 (as the code has it): with no current field predict_wind_field returns
\* None; within 300 s of the last fusion the propagation model is not consulted;
\* beyond 300 s every cell [i, j] of the prediction arrays for which the
\* propagation model yields no prediction takes the current field's direction and
\* speed at [i * sample_factor, j * sample_factor] and 0.7 times its confidence
\* there, and these arrays are the returned field whenever they are not
\* re-gridded to the requested resolution.
C7_FallbackInPredictionArrays ==
    last.op = "predict" =>
        /\ current_wind_field = None => last.returned = None /\ ~last.consulted
        /\ (current_wind_field # None /\ ~IsFarPredict) => ~last.consulted
        /\ IsFarPredict =>
               LET sf == Max(1, last.grid_resolution \div 10)
                   p == last.predicted
               IN  /\ last.consulted
                   /\ \A c \in Cells(p.lat_grid) :
                          ~Predicts(last.call.mask, c[1], c[2]) =>
                              /\ Cell(p.wind_direction, c[1], c[2]) =
                                     Cell(current_wind_field.wind_direction,
                                          c[1] * sf, c[2] * sf)
                              /\ Cell(p.wind_speed, c[1], c[2]) =
                                     Cell(current_wind_field.wind_speed,
                                          c[1] * sf, c[2] * sf)
                              /\ Cell(p.confidence, c[1], c[2]) =
                                     (7 * Cell(current_wind_field.confidence,
                                               c[1] * sf, c[2] * sf)) \div 10
                   /\ ~last.regridded => last.returned = p

C7_Witness ==
    /\ IsFarPredict
    /\ last.call.mask = "even"
    /\ last.grid_resolution = 20
    /\ last.regridded
    /\ Cell(last.predicted.confidence, 0, 1) =
           (7 * Cell(current_wind_field.confidence, 0, 2)) \div 10

\* C7 (as stated): beyond 300 s every cell of the returned field for which the
\* propagation model yields no prediction takes the current field's direction,
\* speed and 0.7 times its confidence at that cell.
C7_FallbackInReturnedField ==
    IsFarPredict =>
        LET sf == Max(1, last.grid_resolution \div 10)
            r == last.returned
        IN  \A c \in Cells(r.lat_grid) \cap Cells(last.predicted.lat_grid) :
                ~Predicts(last.call.mask, c[1], c[2]) =>
                    /\ Cell(r.wind_speed, c[1], c[2]) =
                           Cell(current_wind_field.wind_speed, c[1] * sf, c[2] * sf)
                    /\ Cell(r.confidence, c[1], c[2]) =
                           (7 * Cell(current_wind_field.confidence,
                                     c[1] * sf, c[2] * sf)) \div 10
                    /\ Cell(r.wind_direction, c[1], c[2]) =
                           Cell(current_wind_field.wind_direction,
                                c[1] * sf, c[2] * sf)

SameShapes(field) ==
    /\ field.wind_direction.shape = field.lat_grid.shape
    /\ field.wind_speed.shape = field.lat_grid.shape
    /\ field.confidence.shape = field.lat_grid.shape

\* C8: the current field, every field in the history and every field returned by
\* predict_wind_field has wind_direction, wind_speed and confidence grids of the
\* shape of its lat_grid.
C8_GridShapesAgree ==
    /\ current_wind_field # None => SameShapes(current_wind_field)
    /\ \A k \in 1 .. Len(wind_field_history) : SameShapes(wind_field_history[k].field)
    /\ (last.op = "predict" /\ last.returned # None) => SameShapes(last.returned)

C8_Witness ==
    /\ IsFarPredict
    /\ last.grid_resolution = 200
    /\ ~last.regridded
    /\ last.returned.lat_grid.shape = <<1, 1>>
    /\ SameShapes(last.returned)

C8_WitnessRegridded ==
    /\ IsFarPredict
    /\ last.regridded
    /\ last.returned.lat_grid.shape = <<20, 20>>

(***************************************************************************)
(* Claims about WindEstimator                                               *)
(***************************************************************************)
\* the boats of a batch whose own estimation gives a table
Estimable(boats_data) ==
    { k \in 1 .. Len(boats_data) : IsTable(SingleBoatResult(boats_data[k].gps_data)) }

\* C9: estimate_wind_from_multiple_boats returns exactly one table per input boat
\* whose estimation succeeded, under that boat's key in boats_data, and nothing
\* else, whatever the estimator held before and whatever the boat_id columns say.
C9_ReturnsExactlyTheInputBoats ==
    (last.op = "multiple" /\ ~last.raised) =>
        /\ DOMAIN last.returned =
               { last.boats_data[k].key : k \in Estimable(last.boats_data) }
        /\ \A k \in Estimable(last.boats_data) :
               last.returned[last.boats_data[k].key] =
                   WindTable(last.boats_data[k].gps_data)

HasSpan(gps_data) == gps_data.timestamps \in {"datetime64", "objects"}

C11_InvalidTrackChangesNothing ==
    [][(/\ last'.op = "single"
        /\ \/ last'.gps_data.points < 20
           \/ ~last'.gps_data.columns)
       => (last'.returned = None /\ wind_estimates' = wind_estimates)]_vars

C11_Witness ==
    /\ last.op = "single"
    /\ last.gps_data.points >= 20
    /\ ~last.gps_data.columns
    /\ last.returned = None
    /\ wind_estimates # EmptyMap

\* C12: a sub-estimator reporting confidence 0 contributes nothing: direction
\* and confidence returned by estimate_wind_direction_hybrid equal what the
\* remaining estimates alone combine to.
C12_ZeroConfidenceContributesNothing ==
    (last.op = "hybrid" /\ last.points >= 10) =>
        LET all == << Estimate("speed_patterns", last.speed[1], last.speed[2]),
                      Estimate("polar_data", last.polar[1], last.polar[2]),
                      Estimate("optimal_vmg", last.vmg[1], last.vmg[2]) >>
        IN  \A k \in 1 .. 3 :
                all[k].confidence = 0 =>
                    last.returned =
                        CombineEstimates(
                            SelectSeq(all, LAMBDA e : e.confidence > 0),
                            last.data_quality)

\* the direction alone does ignore zero-confidence estimates
C12_DirectionIgnoresZeroConfidence ==
    (last.op = "hybrid" /\ last.points >= 10) =>
        last.returned[1] =
            WeightedAngleConsensus(
                SelectSeq(HybridEstimates(last.speed, last.polar, last.vmg),
                          LAMBDA e : e.confidence > 0))

\* C13: on the same track the mean confidence of the window estimates made
\* with use_bayesian=True is at least 0.95 times the mean made with
\* use_bayesian=False (the tables have the same number of rows, so the sums
\* compare as the means do).
C13_BayesianKeepsConfidence ==
    (last.op = "windows" /\ last.use_bayesian) =>
        100 * SumSeq(last.confidence) >=
            95 * SumSeq(ConfidenceColumn(last.points, last.confidence_score, FALSE))

\* the relative angles of the last classified maneuver
RelBefore == (last.before_bearing - last.wind_direction + 360) % 360

RelAfter == (last.after_bearing - last.wind_direction + 360) % 360

Within90(rel) == rel <= 90 \/ rel >= 270

\* C14: _categorize_maneuver returns exactly one of tack, jibe, bear_away,
\* head_up for every input: tack when both bearings are upwind (within 90
\* degrees of the wind), jibe when both are downwind, bear_away from upwind to
\* downwind, head_up from downwind to upwind; with wind 0 it maps (30,330) and
\* (330,30) to tack, (150,210) and (210,150) to jibe, (30,150) to bear_away and
\* (150,30) to head_up.
C14_ClassifierIsTotal ==
    last.op = "categorize" =>
        /\ last.returned \in {"tack", "jibe", "bear_away", "head_up"}
        /\ last.returned = "tack" <=> (Within90(RelBefore) /\ Within90(RelAfter))
        /\ last.returned = "jibe" <=> (~Within90(RelBefore) /\ ~Within90(RelAfter))
        /\ last.returned = "bear_away" <=> (Within90(RelBefore) /\ ~Within90(RelAfter))
        /\ last.returned = "head_up" <=> (~Within90(RelBefore) /\ Within90(RelAfter))
        /\ last.wind_direction = 0 =>
               LET b == last.before_bearing
                   a == last.after_bearing
               IN  /\ (<<b, a>> \in {<<30, 330>>, <<330, 30>>}) => last.returned = "tack"
                   /\ (<<b, a>> \in {<<150, 210>>, <<210, 150>>}) => last.returned = "jibe"
                   /\ (<<b, a>> = <<30, 150>>) => last.returned = "bear_away"
                   /\ (<<b, a>> = <<150, 30>>) => last.returned = "head_up"

C14_Witness ==
    /\ last.op = "categorize"
    /\ last.wind_direction = 0
    /\ last.before_bearing = 150
    /\ last.after_bearing = 30
    /\ last.returned = "head_up"

\* C15: the classifier returns tack only when both relative angles are at most
\* 45 or at least 315 degrees, and jibe only when both lie between 120 and 240
\* degrees.
C15_ThresholdsAre45And120 ==
    last.op = "categorize" =>
        /\ last.returned = "tack" =>
               /\ (RelBefore <= 45 \/ RelBefore >= 315)
               /\ (RelAfter <= 45 \/ RelAfter >= 315)
        /\ last.returned = "jibe" =>
               /\ (120 <= RelBefore /\ RelBefore <= 240)
               /\ (120 <= RelAfter /\ RelAfter <= 240)

\* the single-step bearing change at sample i of the last analysed track
Change(i) ==
    IF i = 0 THEN 0
    ELSE Abs(((last.bearings[i + 1] - last.bearings[i] + 180) % 360) - 180)

\* sample i is marked: the changes at i - 1, i and i + 1 sum to more than 30
Marked(i) ==
    /\ 1 <= i
    /\ i <= Len(last.bearings) - 2
    /\ Change(i - 1) + Change(i) + Change(i + 1) > 30

\* the first samples of the maximal runs of marked samples
RunStarts ==
    { i \in 0 .. Len(last.bearings) - 1 : Marked(i) /\ ~Marked(i - 1) }

\* the run that starts at sample i
RunOf(i) == { j \in i .. Len(last.bearings) - 1 : \A k \in i .. j : Marked(k) }

\* the result holds one maneuver per run, at a sample of largest change in it
OnePerRun ==
    /\ Len(last.returned) = Cardinality(RunStarts)
    /\ \A st \in RunStarts :
           \E k \in 1 .. Len(last.returned) :
               /\ last.returned[k].index \in RunOf(st)
               /\ \A j \in RunOf(st) : Change(j) <= Change(last.returned[k].index)

\* C16 (as the code has it): on a track of at least 2 * window_size (6) samples
\* detect_maneuvers reports exactly one maneuver per maximal run of marked
\* samples, at the sample of largest single-step change in the run, and nothing
\* when no sample is marked; on a shorter track it reports nothing at all.
C16_OneManeuverPerRun ==
    last.op = "detect" =>
        IF Len(last.bearings) < 6 THEN last.returned = << >> ELSE OnePerRun

C16_Witness ==
    /\ last.op = "detect"
    /\ Len(last.bearings) = 7
    /\ Len(last.returned) = 2
    /\ last.returned[1].index = 1
    /\ last.returned[2].index = 5

\* C16 (as stated): for every track, one maneuver per maximal run of marked
\* samples, at the sample of largest single-step change in the run.
C16_OneManeuverPerRunAnyTrack == last.op = "detect" => OnePerRun

\* C17: every reported maneuver has a net bearing change, from before_bearing
\* to after_bearing, greater than 30 degrees.
C17_NetChangeAboveThreshold ==
    last.op = "detect" =>
        \A k \in 1 .. Len(last.returned) :
            Abs(((last.returned[k].after_bearing - last.returned[k].before_bearing
                  + 180) % 360) - 180) > 30

(***************************************************************************)
(* Claims about StrategyDetector                                            *)
(***************************************************************************)
\* C18: the list _filter_duplicate_shifts returns never holds two wind-shift
\* points within 500 m and within 300 s of each other.
C18_NoTwoShiftsClose ==
    last.op = "filter_shifts" =>
        \A i \in 1 .. Len(last.returned) : \A j \in 1 .. Len(last.returned) :
            i # j =>
                ~(/\ Abs(last.returned[i].position - last.returned[j].position) < 500
                  /\ Abs(last.returned[i].time_estimate
                         - last.returned[j].time_estimate) < 300)

\* candidate c lies within 200 m and within 300 s of the known tack point k
CloseToKnown(c, k) ==
    Abs(c.position - k.position) < 200 /\ Abs(c.time - k.time) < 300

\* the tack points known when the i-th candidate is found: the leg's own and
\* the candidates found before it
KnownBefore(i) ==
    { last.existing_tacks[k] : k \in 1 .. Len(last.existing_tacks) }
    \cup { last.candidates[j] : j \in 1 .. (i - 1) }

Returned(c) ==
    \E k \in 1 .. Len(last.returned) :
        last.returned[k] = [position |-> c.position, time_estimate |-> c.time,
                            vmg_gain |-> c.vmg_gain]

\* C19: a candidate within 200 m and 300 s of one of the leg's tack points is
\* discarded, and a candidate farther than 200 m or more than 300 s from every
\* tack point known before it is kept.
C19_DuplicateWithin200mAnd300s ==
    last.op = "detect_tacks" =>
        \A i \in 1 .. Len(last.candidates) :
            LET c == last.candidates[i]
            IN  /\ (\E k \in 1 .. Len(last.existing_tacks) :
                        CloseToKnown(c, last.existing_tacks[k])) => ~Returned(c)
                /\ (\A k \in KnownBefore(i) : ~CloseToKnown(c, k)) => Returned(c)

(***************************************************************************)
(* Claims about the detectors' wind lookup                                 *)
(***************************************************************************)
NearestCells(wind_field, lat, lon) ==
    { idx \in GridIndices(wind_field.lat_grid) :
        \A other \in GridIndices(wind_field.lat_grid) :
            SquaredDistance(wind_field, idx, lat, lon)
                <= SquaredDistance(wind_field, other, lat, lon) }

ValueOfNearestCell(wind_field, lat, lon, returned) ==
    \E idx \in NearestCells(wind_field, lat, lon) :
        /\ returned # None
        /\ returned.direction = wind_field.wind_direction[idx[1]][idx[2]]
        /\ returned.speed = wind_field.wind_speed[idx[1]][idx[2]]
        /\ returned.confidence = IF wind_field.has_confidence
                                 THEN wind_field.confidence[idx[1]][idx[2]]
                                 ELSE default_confidence

\* C20: with no interpolator injected, a lookup in a field that carries its
\* grids does not raise, returns None for a position outside the grid, and
\* otherwise returns the direction, speed and confidence of the nearest cell
\* of the field passed in that very call.
C20_LookupReadsThePassedField ==
    (last.op = "get_wind" /\ last.interpolator = "none" /\ last.wind_field.complete)
        => /\ ~last.raised
           /\ IF OutsideGrid(last.wind_field, last.lat, last.lon)
              THEN last.returned = None
              ELSE ValueOfNearestCell(last.wind_field, last.lat, last.lon, last.returned)

(***************************************************************************)
(* Claims about the angle helpers                                          *)
(***************************************************************************)
\* C21: angle_difference(a, b) lies in (-180, 180]: a difference of exactly
\* half a turn is reported as +180, never as -180.
C21_DifferenceInHalfOpenInterval ==
    last.op = "angle_difference" => (-180 < last.returned /\ last.returned <= 180)

\* C21 as the code has it: the difference lies in [-180, 180), and a
\* difference of exactly half a turn is reported as -180.
C21_DifferenceInClosedOpenInterval ==
    last.op = "angle_difference" =>
        /\ -180 <= last.returned /\ last.returned < 180
        /\ (last.returned - (last.angle1 - last.angle2)) % 360 = 0

C21_Witness ==
    /\ last.op = "angle_difference"
    /\ (last.angle1 - last.angle2) % 360 = 180
    /\ last.returned = -180

IsHalfTurn(angle1, angle2) == (angle1 - angle2) % 360 = 180

\* C22 as the code has it: angle_difference(a, b) = -angle_difference(b, a)
\* whenever a and b are not half a turn apart; at half a turn both orders
\* give -180.
C22_AntisymmetricOffHalfTurn ==
    last.op = "angle_difference" =>
        IF IsHalfTurn(last.angle1, last.angle2)
        THEN /\ last.returned = -180
             /\ AngleDifference(last.angle2, last.angle1) = -180
        ELSE last.returned = -AngleDifference(last.angle2, last.angle1)

C22_Witness ==
    /\ last.op = "angle_difference"
    /\ last.angle1 = 345 /\ last.angle2 = 15
    /\ last.returned = -30
    /\ AngleDifference(last.angle2, last.angle1) = 30

\* C22: angle_difference(a, b) = -angle_difference(b, a) for all angles.
C22_DifferenceIsAntisymmetric ==
    last.op = "angle_difference" =>
        last.returned = -AngleDifference(last.angle2, last.angle1)

(***************************************************************************)
(* Claims about the fusion system's state across calls                     *)
(***************************************************************************)
\* C23: whenever current_wind_field is not None, wind_field_history is not
\* empty, its newest entry holds that same field, and the field's time equals
\* last_fusion_time.
C23_CurrentFieldIsNewestSnapshot ==
    current_wind_field # None =>
        /\ wind_field_history # <<>>
        /\ wind_field_history[Len(wind_field_history)].field = current_wind_field
        /\ wind_field_history[Len(wind_field_history)].time = last_fusion_time
        /\ current_wind_field.time = last_fusion_time

C23_Witness ==
    /\ last.op = "predict"
    /\ current_wind_field # None
    /\ Len(wind_field_history) = 2
    /\ Len(wind_data_points) >= 5

HistoryOrdered ==
    \A k \in 1 .. Len(wind_field_history) - 1 :
        wind_field_history[k].time.sec <= wind_field_history[k + 1].time.sec

\* C24: after any sequence of add_wind_data_point and update_with_boat_data
\* calls the snapshot times in wind_field_history are non-decreasing from
\* oldest to newest, and last_fusion_time never moves backwards.
C24_FusionTimeNeverGoesBack ==
    /\ [] HistoryOrdered
    /\ [][ last_fusion_time # None =>
               /\ last_fusion_time' # None
               /\ last_fusion_time'.sec >= last_fusion_time.sec ]_vars

NoUsableRows(boats_data) ==
    \A k \in 1 .. Len(boats_data) :
        \/ boats_data[k].table.rows = <<>>
        \/ ~(required_columns \subseteq boats_data[k].table.columns)

\* C25 as the code has it: update_with_boat_data with no usable rows empties
\* the buffer, runs no fusion, leaves current_wind_field, wind_field_history
\* and last_fusion_time unchanged and returns current_wind_field as it was,
\* which is None when no field was fused yet or when the latest fusion failed.
C25_EmptyUpdateOnlyClearsBuffer ==
    [][ (last'.op = "update" /\ NoUsableRows(last'.boats_data))
        => /\ wind_data_points' = <<>>
           /\ last'.ran = 0
           /\ UNCHANGED <<current_wind_field, wind_field_history, last_fusion_time>>
           /\ last'.returned = current_wind_field ]_vars

C25_Witness ==
    /\ last.op = "update"
    /\ NoUsableRows(last.boats_data)
    /\ Len(last.boats_data) = 2
    /\ last.before > 0
    /\ wind_data_points = <<>>
    /\ last.returned # None
    /\ Len(wind_field_history) = 1

\* C25: such a call returns the previously fused field, None only if no field
\* had been fused before.
C25_EmptyUpdateReturnsFusedField ==
    (last.op = "update" /\ NoUsableRows(last.boats_data) /\ last.returned = None)
        => produced = 0

(***************************************************************************)
(* Claims about the duplicate filter's output                              *)
(***************************************************************************)
Occurrences(seq, v) == Cardinality({ k \in 1 .. Len(seq) : seq[k] = v })

\* every entry of sub occurs in whole at least as often
IsSubList(sub, whole) ==
    \A k \in 1 .. Len(sub) : Occurrences(sub, sub[k]) <= Occurrences(whole, sub[k])

StrictlyHighest(points, k) ==
    \A j \in 1 .. Len(points) :
        j # k => points[j].shift_probability < points[k].shift_probability

C27_TackTypeDependsOnOffsetOnly ==
    last.op = "determine_tack_type" =>
        last.returned =
            IF (last.wind_direction - last.bearing) % 360 <= 180
            THEN "starboard" ELSE "port"

Rotations == { 20, 90, 355 }

\* C28: rotating the heading before and the heading after the tack by the same
\* angle (mod 360) rotates the wind direction estimate_wind_direction_from_tack
\* returns by that angle (mod 360).
C28_EstimateRotatesWithHeadings ==
    last.op = "estimate_wind_direction_from_tack" =>
        \A r \in Rotations :
            EstimateWindDirectionFromTack((last.heading_before + r) % 360,
                                          (last.heading_after + r) % 360)
                = (last.returned + 2 * r) % 720

(***************************************************************************)
(* Claims about the hybrid estimator's sub-estimators                      *)
(***************************************************************************)
\* both sub-estimators reached their cluster comparison and took the same
\* slower cluster, by its mean bearing, as the upwind one
SameUpwindCluster ==
    /\ last.op = "sub_estimators"
    /\ last.rows >= 10 /\ last.valid >= 10
    /\ HasSpeedContrast(last.cluster_stats)
    /\ Len(last.cluster_data) = 2
    /\ MinSpeedCluster(last.cluster_stats).mean_bearing
           = MinSpeedCluster(last.cluster_data).mean_bearing

LaylineReturned ==
    /\ last.op = "calculate_layline"
    /\ last.returned # None
    /\ last.returned # Raise

\* C30: _calculate_layline never reports a point as on both laylines at once:
\* the safety margin lies in [3, 25] degrees, the two layline bearings are more
\* than one safety margin apart, and a point counts as on a layline only
\* within half a margin of it.
C30_NeverOnBothLaylines ==
    LaylineReturned =>
        /\ 300 <= last.returned.safety_margin /\ last.returned.safety_margin <= 2500
        /\ Abs(CentiAngleDifference(last.returned.starboard_layline,
                                    last.returned.port_layline))
               > last.returned.safety_margin
        /\ last.returned.on_port_layline =>
               2 * Abs(CentiAngleDifference(last.bearing_to_mark,
                                            last.returned.port_layline))
                   < last.returned.safety_margin
        /\ ~(last.returned.on_port_layline /\ last.returned.on_starboard_layline)

C30_Witness ==
    /\ LaylineReturned
    /\ last.returned.safety_margin = 2500
    /\ last.returned.tacking_angle = 8500
    /\ last.returned.on_starboard_layline
    /\ last.returned.wind_shift = 45

====
